---- MODULE Spec2Model ----
(***************************************************************************)
(* A model of the rust-gb emulator core: the CPU's step() with its         *)
(* interrupt service (src/src/cpu.rs), the MMU's address decoding, OAM     *)
(* DMA, update() and IRQ latch (src/src/mmu.rs), the PPU's registers and   *)
(* mode machine (src/src/ppu.rs), the timer (src/src/timer.rs), the        *)
(* joypad latch (src/src/joypad.rs), work RAM (src/src/wram.rs) and the    *)
(* cartridge variants with their bank latches (src/src/cartridge.rs).      *)
(*                                                                         *)
(* Every Rust method is an operator from the struct (a record) to the      *)
(* updated struct, so that `self.mmu.ppu.stat` reads c.mmu.ppu.stat.       *)
(* Fields whose names end in _log are history fields: they record the      *)
(* calls made during the current step() and are reset when a step begins.  *)
(***************************************************************************)
EXTENDS Integers, Sequences, FiniteSets, TLC

VARIABLES
    cpu,     \* the Cpu struct, with the Mmu and its peripherals inside it
    last,    \* history: what the last step() read, returned and serviced
    steps    \* history: number of host calls made so far

vars == <<cpu, last, steps>>

(***************************************************************************)
(* Fixed-width arithmetic.                                                 *)
(***************************************************************************)
U8 == 256
U16 == 65536

RECURSIVE BitAnd(_, _)
BitAnd(a, b) ==
    IF a = 0 \/ b = 0 THEN 0
    ELSE (a % 2) * (b % 2) + 2 * BitAnd(a \div 2, b \div 2)

RECURSIVE BitOr(_, _)
BitOr(a, b) ==
    IF a = 0 THEN b
    ELSE IF b = 0 THEN a
    ELSE (IF (a % 2) + (b % 2) > 0 THEN 1 ELSE 0) + 2 * BitOr(a \div 2, b \div 2)

Shr(v, n) == v \div (2 ^ n)
Bit(v, i) == Shr(v, i) % 2
\* v & !mask on a byte
BitClear(v, mask) == v - BitAnd(v, mask)

wrapping_add8(a, b) == (a + b) % U8
wrapping_sub8(a, b) == (a - b + U8) % U8
wrapping_add16(a, b) == (a + b) % U16
wrapping_sub16(a, b) == (a - b + U16) % U16
\* The u32 clock wraps at 2^32, beyond the integers TLC can hold.  The runs
\* checked here keep it far below that, where wrapping_add is the sum and
\* wrapping_sub the difference.
wrapping_add32(a, b) == a + b
wrapping_sub32(a, b) == a - b

(***************************************************************************)
(* Zero-initialised byte arrays are kept sparse: only the non-zero cells   *)
(* are stored, so two arrays with the same contents are the same value.    *)
(***************************************************************************)
EmptyMem == [x \in {} |-> 0]
MemGet(m, a) == IF a \in DOMAIN m THEN m[a] ELSE 0
MemSet(m, a, v) ==
    IF v = 0 THEN [x \in (DOMAIN m) \ {a} |-> m[x]]
    ELSE [x \in (DOMAIN m) \cup {a} |-> IF x = a THEN v ELSE m[x]]

(***************************************************************************)
(* Timer (src/src/timer.rs).  `overflowed` is a history field: it becomes  *)
(* TRUE when `self.tma + (diff as u8 - 1)` exceeds a byte, where a build   *)
(* with overflow checks aborts and a build without them wraps.  The other  *)
(* fields then hold what the wrapping build computes.                      *)
(***************************************************************************)
Timer_new ==
    [tima |-> 0, tma |-> 0, tac |-> 0, counter |-> 0, irq_timer |-> FALSE,
     overflowed |-> FALSE]

\* Timer::write with DIV taking the byte written instead of being cleared
Timer_write_div_value(t, addr, val) ==
    CASE addr = 65284 -> [t EXCEPT !.counter = val * U8]
      [] addr = 65285 -> [t EXCEPT !.tima = val]
      [] addr = 65286 -> [t EXCEPT !.tma = val]
      [] addr = 65287 -> [t EXCEPT !.tac = BitAnd(val, 7)]

Timer_write(t, addr, val) ==
    CASE addr = 65284 -> [t EXCEPT !.counter = 0]
      [] addr = 65285 -> [t EXCEPT !.tima = val]
      [] addr = 65286 -> [t EXCEPT !.tma = val]
      [] addr = 65287 -> [t EXCEPT !.tac = BitAnd(val, 7)]

Timer_read(t, addr) ==
    CASE addr = 65284 -> Shr(t.counter, 8) % U8
      [] addr = 65285 -> t.tima
      [] addr = 65286 -> t.tma
      [] addr = 65287 -> t.tac

is_irq_timer(t) == t.irq_timer
set_irq_timer(t, flag) == [t EXCEPT !.irq_timer = flag]

Timer_divider(tac) ==
    CASE BitAnd(tac, 3) = 0 -> 10
      [] BitAnd(tac, 3) = 1 -> 4
      [] BitAnd(tac, 3) = 2 -> 6
      [] OTHER -> 8

\* Timer::update with the reload carrying the ticks counted past the
\* overflow: tma + (tima + diff - 256)
Timer_update_carry_exact(t, tick) ==
    LET counter_prev == t.counter
        counter == wrapping_add16(t.counter, tick)
        t1 == [t EXCEPT !.counter = counter]
    IN  IF BitAnd(t.tac, 4) > 0
        THEN LET divider == Timer_divider(t.tac)
                 x == Shr(counter, divider)
                 y == Shr(counter_prev, divider)
                 mask == (2 ^ (16 - divider)) - 1
                 diff == BitAnd(wrapping_sub16(x, y), mask)
             IN  IF diff > 0
                 THEN IF t.tima + (diff % U8) >= U8
                      THEN [t1 EXCEPT !.tima = (t.tma + (t.tima + (diff % U8) - U8)) % U8,
                                      !.irq_timer = TRUE]
                      ELSE [t1 EXCEPT !.tima = t.tima + (diff % U8)]
                 ELSE t1
        ELSE t1

Timer_update(t, tick) ==
    LET counter_prev == t.counter
        counter == wrapping_add16(t.counter, tick)
        t1 == [t EXCEPT !.counter = counter]
    IN  IF BitAnd(t.tac, 4) > 0
        THEN LET divider == Timer_divider(t.tac)
                 x == Shr(counter, divider)
                 y == Shr(counter_prev, divider)
                 mask == (2 ^ (16 - divider)) - 1
                 diff == BitAnd(wrapping_sub16(x, y), mask)
             IN  IF diff > 0
                 THEN IF t.tima + (diff % U8) >= U8
                      THEN [t1 EXCEPT !.tima = (t.tma + ((diff % U8) - 1)) % U8,
                                      !.irq_timer = TRUE,
                                      !.overflowed =
                                          @ \/ (t.tma + ((diff % U8) - 1) >= U8)]
                      ELSE [t1 EXCEPT !.tima = t.tima + (diff % U8)]
                 ELSE t1
        ELSE t1

(***************************************************************************)
(* Joypad (src/src/joypad.rs).  Keys are named by their key_state mask.    *)
(***************************************************************************)
Joypad_new == [joyp |-> 255, key_state |-> 255, irq |-> FALSE]

keydown(j, mask) ==
    [j EXCEPT !.key_state = BitClear(@, mask), !.irq = TRUE]

keyup(j, mask) ==
    [j EXCEPT !.key_state = BitOr(@, mask)]

Joypad_write_byte(j, addr, value) ==
    CASE addr = 65280 ->
        [j EXCEPT !.joyp = BitOr(BitAnd(@, 207), BitAnd(value, 48))]

Joypad_read_byte(j, addr) ==
    CASE addr = 65280 ->
        IF BitAnd(j.joyp, 16) = 0
        THEN BitOr(BitAnd(j.joyp, 240), BitAnd(Shr(j.key_state, 4), 15))
        ELSE IF BitAnd(j.joyp, 32) = 0
        THEN BitOr(BitAnd(j.joyp, 240), BitAnd(j.key_state, 15))
        ELSE j.joyp

(***************************************************************************)
(* PPU (src/src/ppu.rs): the registers, the mode machine and the two IRQ   *)
(* lines.  render_scan writes only the frame buffer, which is not carried  *)
(* here; VRAM and OAM are sparse arrays.                                   *)
(***************************************************************************)
HBlank == 0
VBlank == 1
SearchingOAM == 2
Drawing == 3

\* Palette: `overflowed` is a history field, TRUE once the auto-increment
\* `specification_index += 1` has passed 255, where a build with overflow
\* checks aborts and a build without them wraps.
Palette_new == [specification_index |-> 0, palette |-> EmptyMem, overflowed |-> FALSE]

get_specification_index(pal) == pal.specification_index

set_specification_index(pal, value) == [pal EXCEPT !.specification_index = value]

is_autoincrement(pal) == Shr(pal.specification_index, 7) = 1

get_index(pal) == BitAnd(pal.specification_index, 63)

get_color_data(pal) == MemGet(pal.palette, get_index(pal))

set_color_data(pal, value) ==
    [pal EXCEPT !.palette = MemSet(@, get_index(pal), value),
                !.specification_index =
                    IF is_autoincrement(pal) THEN (@ + 1) % U8 ELSE @,
                !.overflowed =
                    @ \/ (is_autoincrement(pal) /\ pal.specification_index = 255)]

Ppu_new ==
    [vram |-> EmptyMem, oam |-> EmptyMem,
     lcdc |-> 128, stat |-> 2, scy |-> 0, scx |-> 0, ly |-> 0, lyc |-> 0,
     dma |-> 0, wy |-> 0, wx |-> 0, vbk |-> 0,
     bgp |-> Palette_new, objp |-> Palette_new, counter |-> 0,
     irq_lcdc |-> FALSE, irq_vblank |-> FALSE]

get_vbk(p) == BitOr(254, p.vbk)

set_vbk(p, value) == [p EXCEPT !.vbk = BitAnd(value, 1)]

is_irq_vblank(p) == p.irq_vblank
is_irq_lcdc(p) == p.irq_lcdc
set_irq_vblank(p, flag) == [p EXCEPT !.irq_vblank = flag]
set_irq_lcdc(p, flag) == [p EXCEPT !.irq_lcdc = flag]

is_lcd_and_ppu_enable(p) == Bit(p.lcdc, 7) = 1

get_mode_flag(p) == BitAnd(p.stat, 3)

\* the new mode ORed into STAT without clearing the old one
set_mode_flag_or(p, mode) ==
    [p EXCEPT !.stat = BitOr(@, mode)]

set_mode_flag(p, mode) ==
    [p EXCEPT !.stat = BitOr(BitAnd(@, 248), mode)]

update_lyc_interrupt(p) ==
    IF p.ly = p.lyc
    THEN [p EXCEPT !.stat = BitOr(@, 4), !.irq_lcdc = TRUE]
    ELSE [p EXCEPT !.stat = BitClear(@, 4)]

\* update_mode_interrupt without the OAM-search arm
update_mode_interrupt_no_oam(p) ==
    CASE BitAnd(p.stat, 3) = 0 /\ BitAnd(p.stat, 8) > 0 -> [p EXCEPT !.irq_lcdc = TRUE]
      [] BitAnd(p.stat, 3) = 1 /\ BitAnd(p.stat, 16) > 0 -> [p EXCEPT !.irq_lcdc = TRUE]
      [] OTHER -> p

update_mode_interrupt(p) ==
    CASE BitAnd(p.stat, 3) = 0 /\ BitAnd(p.stat, 8) > 0 -> [p EXCEPT !.irq_lcdc = TRUE]
      [] BitAnd(p.stat, 3) = 1 /\ BitAnd(p.stat, 16) > 0 -> [p EXCEPT !.irq_lcdc = TRUE]
      [] BitAnd(p.stat, 3) = 2 /\ BitAnd(p.stat, 32) > 0 -> [p EXCEPT !.irq_lcdc = TRUE]
      [] OTHER -> p

\* Ppu::read of VRAM and OAM without the test of the mode
Ppu_read_ungated(p, addr) ==
    CASE addr \in 32768..40959 -> MemGet(p.vram, BitAnd(addr, 8191))
      [] addr \in 65024..65183 -> MemGet(p.oam, BitAnd(addr, 255))
      [] OTHER -> 255

Ppu_read(p, addr) ==
    CASE addr \in 32768..40959 ->
            IF BitAnd(p.stat, 3) # 3 THEN MemGet(p.vram, BitAnd(addr, 8191)) ELSE 255
      [] addr \in 65024..65183 ->
            IF BitAnd(p.stat, 3) = 0 \/ BitAnd(p.stat, 3) = 1
            THEN MemGet(p.oam, BitAnd(addr, 255)) ELSE 255
      [] addr = 65344 -> p.lcdc
      [] addr = 65345 -> p.stat
      [] addr = 65346 -> p.scy
      [] addr = 65347 -> p.scx
      [] addr = 65348 -> p.ly
      [] addr = 65349 -> p.lyc
      [] addr = 65350 -> p.dma
      [] addr = 65354 -> p.wy
      [] addr = 65355 -> p.wx
      [] addr = 65359 -> get_vbk(p)
      [] addr = 65384 -> get_specification_index(p.bgp)
      [] addr = 65385 -> get_color_data(p.bgp)
      [] addr = 65386 -> get_specification_index(p.objp)
      [] addr = 65387 -> get_color_data(p.objp)

\* the addresses that reach `_ => panic!` in Ppu::read and in Ppu::write
Ppu_read_panics(p, addr) ==
    addr \notin (32768..40959) \cup (65024..65183) \cup (65344..65350)
                \cup {65354, 65355, 65359} \cup (65384..65387)

Ppu_write_panics(p, addr, value) ==
    addr \notin (32768..40959) \cup (65024..65183) \cup (65344..65349)
                \cup {65354, 65355, 65359} \cup (65384..65387)

\* the 0xff41 arm storing the whole byte, mode bits included
write_stat_raw(p, value) == [p EXCEPT !.stat = value]

\* the 0xff41 arm of Ppu::write
write_stat(p, value) ==
    [p EXCEPT !.stat = BitOr(BitAnd(value, 248), BitAnd(@, 3))]

Ppu_write(p, addr, value) ==
    CASE addr \in 32768..40959 ->
            IF BitAnd(p.stat, 3) # 3
            THEN [p EXCEPT !.vram = MemSet(@, BitAnd(addr, 8191), value)]
            ELSE p
      [] addr \in 65024..65183 ->
            IF BitAnd(p.stat, 3) = 0 \/ BitAnd(p.stat, 3) = 1
            THEN [p EXCEPT !.oam = MemSet(@, BitAnd(addr, 255), value)]
            ELSE p
      [] addr = 65344 ->
            IF BitAnd(p.lcdc, 128) # BitAnd(value, 128)
            THEN LET mode == IF BitAnd(value, 128) > 0 THEN 2 ELSE 0
                     q == [p EXCEPT !.ly = 0, !.counter = 0,
                                    !.stat = BitOr(BitAnd(@, 248), mode)]
                 IN  [update_mode_interrupt(q) EXCEPT !.lcdc = value]
            ELSE [p EXCEPT !.lcdc = value]
      [] addr = 65345 -> write_stat(p, value)
      [] addr = 65346 -> [p EXCEPT !.scy = value]
      [] addr = 65347 -> [p EXCEPT !.scx = value]
      [] addr = 65348 -> p
      [] addr = 65349 ->
            IF p.lyc # value
            THEN update_lyc_interrupt([p EXCEPT !.lyc = value])
            ELSE p
      [] addr = 65354 -> [p EXCEPT !.wy = value]
      [] addr = 65355 -> [p EXCEPT !.wx = value]
      [] addr = 65359 -> set_vbk(p, value)
      [] addr = 65384 -> [p EXCEPT !.bgp = set_specification_index(@, value)]
      [] addr = 65385 -> [p EXCEPT !.bgp = set_color_data(@, value)]
      [] addr = 65386 -> [p EXCEPT !.objp = set_specification_index(@, value)]
      [] addr = 65387 -> [p EXCEPT !.objp = set_color_data(@, value)]

\* Ppu::update with the counter cleared at each mode change, the cycles
\* beyond the threshold dropped
Ppu_update_drop_carry(p, clock) ==
    IF ~is_lcd_and_ppu_enable(p) THEN p
    ELSE
    LET q == [p EXCEPT !.counter = @ + clock]
    IN  CASE get_mode_flag(q) = SearchingOAM ->
                IF q.counter >= 80
                THEN set_mode_flag([q EXCEPT !.counter = 0], Drawing)
                ELSE q
          [] get_mode_flag(q) = Drawing ->
                IF q.counter >= 172
                THEN update_mode_interrupt(
                        set_mode_flag([q EXCEPT !.counter = 0], HBlank))
                ELSE q
          [] get_mode_flag(q) = HBlank ->
                IF q.counter >= 204
                THEN LET r == [q EXCEPT !.counter = 0, !.ly = @ + 1]
                         m == IF r.ly >= 144
                              THEN [set_mode_flag(r, VBlank) EXCEPT !.irq_vblank = TRUE]
                              ELSE set_mode_flag(r, SearchingOAM)
                     IN  update_mode_interrupt(update_lyc_interrupt(m))
                ELSE q
          [] get_mode_flag(q) = VBlank ->
                IF q.counter >= 456
                THEN LET r == [q EXCEPT !.counter = 0, !.ly = @ + 1]
                         m == IF r.ly >= 154
                              THEN update_mode_interrupt(
                                      [set_mode_flag(r, SearchingOAM) EXCEPT !.ly = 0])
                              ELSE r
                     IN  update_lyc_interrupt(m)
                ELSE q

Ppu_update(p, clock) ==
    IF ~is_lcd_and_ppu_enable(p) THEN p
    ELSE
    LET q == [p EXCEPT !.counter = @ + clock]
    IN  CASE get_mode_flag(q) = SearchingOAM ->
                IF q.counter >= 80
                THEN set_mode_flag([q EXCEPT !.counter = @ - 80], Drawing)
                ELSE q
          [] get_mode_flag(q) = Drawing ->
                IF q.counter >= 172
                THEN update_mode_interrupt(
                        set_mode_flag([q EXCEPT !.counter = @ - 172], HBlank))
                ELSE q
          [] get_mode_flag(q) = HBlank ->
                IF q.counter >= 204
                THEN LET r == [q EXCEPT !.counter = @ - 204, !.ly = @ + 1]
                         m == IF r.ly >= 144
                              THEN [set_mode_flag(r, VBlank) EXCEPT !.irq_vblank = TRUE]
                              ELSE set_mode_flag(r, SearchingOAM)
                     IN  update_mode_interrupt(update_lyc_interrupt(m))
                ELSE q
          [] get_mode_flag(q) = VBlank ->
                IF q.counter >= 456
                THEN LET r == [q EXCEPT !.counter = @ - 456, !.ly = @ + 1]
                         m == IF r.ly >= 154
                              THEN update_mode_interrupt(
                                      [set_mode_flag(r, SearchingOAM) EXCEPT !.ly = 0])
                              ELSE r
                     IN  update_lyc_interrupt(m)
                ELSE q

(***************************************************************************)
(* WRAM and serial stub (src/src/wram.rs, src/src/serial.rs).              *)
(***************************************************************************)
Wram_new == [bank_index |-> 0, wram |-> EmptyMem]

\* the bank offset applied to the whole 8 KiB window
Wram_addr_all_banked(w, addr) ==
    IF w.bank_index = 0 \/ w.bank_index = 1 THEN addr
    ELSE addr + (w.bank_index - 1) * 4096

\* no bank offset at all
Wram_addr_unbanked(w, addr) == addr

Wram_addr(w, addr) ==
    IF addr \in 0..4095 THEN addr
    ELSE IF w.bank_index = 0 \/ w.bank_index = 1 THEN addr
    ELSE addr + (w.bank_index - 1) * 4096

Wram_read_byte(w, addr) ==
    CASE addr \in 0..8191 -> MemGet(w.wram, Wram_addr(w, addr))

\* Wram::write_byte without the bank offset
Wram_write_byte_bank0(w, addr, value) ==
    CASE addr \in 0..8191 -> [w EXCEPT !.wram = MemSet(@, addr, value)]

Wram_write_byte(w, addr, value) ==
    CASE addr \in 0..8191 -> [w EXCEPT !.wram = MemSet(@, Wram_addr(w, addr), value)]

Serial_new == [data |-> 0, control |-> 0]

Serial_read(s, addr) ==
    CASE addr = 65281 -> s.data
      [] addr = 65282 -> s.control

Serial_write(s, addr, value) ==
    CASE addr = 65281 -> [s EXCEPT !.data = value]
      [] addr = 65282 -> [s EXCEPT !.control = value]

(***************************************************************************)
(* Cartridges (src/src/cartridge.rs).  The ROM file is an input: the image *)
(* used here has a different byte at every offset of any two banks whose   *)
(* numbers differ modulo 256, and as many bytes as its header byte 0x148   *)
(* announces.  External RAM starts zeroed (no save file).  Each variant    *)
(* is a record with the fields of its struct; `kind` names the struct.     *)
(* X_read_panics and X_write_panics tell when the call aborts: an arm      *)
(* that panics, or an index beyond the end of rom or ram.                  *)
(***************************************************************************)
RomByte(i) == ((i \div 16384) + (i % 16384)) % U8

\* rom_size_kb = 32 << rom[0x148], in bytes
RomLen(rom_code) == 32768 * (2 ^ rom_code)

\* ram_size_kb of rom[0x149], in bytes
RamLen(ram_code) ==
    CASE ram_code = 0 -> 0
      [] ram_code = 1 -> 2048
      [] ram_code = 2 -> 8192
      [] ram_code = 3 -> 32768
      [] ram_code = 4 -> 131072
      [] ram_code = 5 -> 65536

RomOnly_new(rom_code) == [kind |-> "RomOnly", rom_len |-> RomLen(rom_code)]

RomOnly_read(c, addr) == CASE addr \in 0..32767 -> RomByte(addr)

RomOnly_read_panics(c, addr) == addr \notin 0..32767

RomOnly_write(c, addr, value) == c

\* `2 << rom[0x148]` is computed in u8
MBC1_new(rom_code, ram_code) ==
    [kind |-> "MBC1", rom_len |-> RomLen(rom_code), ram |-> EmptyMem,
     ram_len |-> RamLen(ram_code), mode_flag |-> FALSE, is_ram_enable |-> FALSE,
     rom_bank_no |-> 0, ram_bank_no |-> 0,
     num_rom_banks |-> (2 * (2 ^ rom_code)) % U8]

\* `0 | 0x20 | 0x40 | 0x60 => bank_no + 1`
MBC1_bump(bank_no) ==
    IF bank_no \in {0, 32, 64, 96} THEN bank_no + 1 ELSE bank_no

\* rom_bank_no() without the `bank_no + 1` arm
MBC1_rom_bank_no_mask_only(c) ==
    BitAnd(IF c.mode_flag THEN c.rom_bank_no
           ELSE BitOr((c.ram_bank_no * 32) % U8, c.rom_bank_no),
           (c.num_rom_banks - 1 + U8) % U8)

MBC1_rom_bank_no(c) ==
    BitAnd(MBC1_bump(IF c.mode_flag THEN c.rom_bank_no
                     ELSE BitOr((c.ram_bank_no * 32) % U8, c.rom_bank_no)),
           (c.num_rom_banks - 1 + U8) % U8)

MBC1_ram_bank_no(c) == IF c.mode_flag THEN c.ram_bank_no ELSE 0

MBC1_rom_index(c, addr) == BitAnd(addr, 16383) + 16384 * MBC1_rom_bank_no(c)

MBC1_ram_index(c, addr) == BitAnd(addr, 8191) + 8192 * MBC1_ram_bank_no(c)

MBC1_read(c, addr) ==
    CASE addr \in 0..16383 -> RomByte(addr)
      [] addr \in 16384..32767 -> RomByte(MBC1_rom_index(c, addr))
      [] addr \in 40960..49151 ->
            IF ~c.is_ram_enable THEN 255
            ELSE MemGet(c.ram, MBC1_ram_index(c, addr))

MBC1_read_panics(c, addr) ==
    CASE addr \in 0..16383 -> FALSE
      [] addr \in 16384..32767 -> MBC1_rom_index(c, addr) >= c.rom_len
      [] addr \in 40960..49151 ->
            c.is_ram_enable /\ MBC1_ram_index(c, addr) >= c.ram_len
      [] OTHER -> TRUE

\* MBC1::write with a 4-bit ROM bank latch: `value & 0x0f` at 0x2000-0x3FFF
MBC1_write_low4(c, addr, value) ==
    CASE addr \in 0..8191 -> [c EXCEPT !.is_ram_enable = (BitAnd(value, 15) = 10)]
      [] addr \in 8192..16383 -> [c EXCEPT !.rom_bank_no = BitAnd(value, 15)]
      [] addr \in 16384..24575 -> [c EXCEPT !.ram_bank_no = BitAnd(value, 3)]
      [] addr \in 24576..32767 -> [c EXCEPT !.mode_flag = (BitAnd(value, 1) = 1)]
      [] addr \in 40960..49151 ->
            IF ~c.is_ram_enable THEN c
            ELSE [c EXCEPT !.ram = MemSet(@, MBC1_ram_index(c, addr), value)]

MBC1_write(c, addr, value) ==
    CASE addr \in 0..8191 -> [c EXCEPT !.is_ram_enable = (BitAnd(value, 15) = 10)]
      [] addr \in 8192..16383 -> [c EXCEPT !.rom_bank_no = BitAnd(value, 31)]
      [] addr \in 16384..24575 -> [c EXCEPT !.ram_bank_no = BitAnd(value, 3)]
      [] addr \in 24576..32767 -> [c EXCEPT !.mode_flag = (BitAnd(value, 1) = 1)]
      [] addr \in 40960..49151 ->
            IF ~c.is_ram_enable THEN c
            ELSE [c EXCEPT !.ram = MemSet(@, MBC1_ram_index(c, addr), value)]

MBC1_write_panics(c, addr, value) ==
    CASE addr \in 0..32767 -> FALSE
      [] addr \in 40960..49151 ->
            c.is_ram_enable /\ MBC1_ram_index(c, addr) >= c.ram_len
      [] OTHER -> TRUE

\* MBC2: 512 half-bytes of built-in RAM
MBC2_new(rom_code) ==
    [kind |-> "MBC2", rom_len |-> RomLen(rom_code), ram |-> EmptyMem,
     ram_len |-> 512, rom_bank_no |-> 0, ram_enable |-> FALSE]

MBC2_rom_index(c, addr) == c.rom_bank_no * 16384 + addr - 16384

MBC2_read(c, addr) ==
    CASE addr \in 0..16383 -> RomByte(addr)
      [] addr \in 16384..32767 -> RomByte(MBC2_rom_index(c, addr))
      [] addr \in 40960..41471 ->
            IF c.ram_enable THEN MemGet(c.ram, addr - 40960) ELSE 0
      [] OTHER -> 0

MBC2_read_panics(c, addr) ==
    addr \in 16384..32767 /\ MBC2_rom_index(c, addr) >= c.rom_len

MBC2_write(c, addr, value) ==
    CASE addr \in 40960..41471 ->
            IF c.ram_enable
            THEN [c EXCEPT !.ram = MemSet(@, addr - 40960, BitAnd(value, 15))]
            ELSE c
      [] addr \in 0..8191 ->
            IF BitAnd(addr, 256) = 0
            THEN [c EXCEPT !.ram_enable = (BitAnd(value, 15) = 10)]
            ELSE c
      [] addr \in 8192..16383 ->
            IF BitAnd(addr, 256) # 0
            THEN [c EXCEPT !.rom_bank_no = BitAnd(value, 15)]
            ELSE c
      [] OTHER -> c

MBC2_write_panics(c, addr, value) == FALSE

\* The clock of MBC3 (src/src/rtc.rs).  tic() reads the wall clock; the
\* seconds since the cartridge was created are the parameter `elapsed`.
Rtc_new == [s |-> 0, m |-> 0, h |-> 0, dl |-> 0, dh |-> 0]

Rtc_read(r, addr) ==
    CASE addr = 8 -> r.s
      [] addr = 9 -> r.m
      [] addr = 10 -> r.h
      [] addr = 11 -> r.dl
      [] addr = 12 -> r.dh

Rtc_write(r, addr, value) ==
    CASE addr = 8 -> [r EXCEPT !.s = value]
      [] addr = 9 -> [r EXCEPT !.m = value]
      [] addr = 10 -> [r EXCEPT !.h = value]
      [] addr = 11 -> [r EXCEPT !.dl = value]
      [] addr = 12 -> [r EXCEPT !.dh = value]

tic(r, elapsed) ==
    [r EXCEPT !.s = elapsed % U8,
              !.m = (elapsed \div 60) % U8,
              !.h = (elapsed \div 3600) % U8,
              !.dl = ((elapsed \div 86400) % U16) % U8,
              !.dh = IF (elapsed \div 86400) % U16 <= 255 THEN @
                     ELSE IF (elapsed \div 86400) % U16 <= 511 THEN BitOr(@, 1)
                     ELSE BitOr(@, 129)]

\* the emulator runs within the second in which the cartridge was created
ElapsedSeconds == 0

MBC3_new(rom_code, ram_code) ==
    [kind |-> "MBC3", rom_len |-> RomLen(rom_code), ram |-> EmptyMem,
     ram_len |-> RamLen(ram_code), rom_bank_no |-> 0, ram_bank_no |-> 0,
     rtc |-> Rtc_new, ram_enable |-> FALSE]

MBC3_rom_index(c, addr) == c.rom_bank_no * 16384 + addr - 16384

MBC3_ram_index(c, addr) == c.ram_bank_no * 8192 + addr - 40960

MBC3_read(c, addr) ==
    CASE addr \in 0..16383 -> RomByte(addr)
      [] addr \in 16384..32767 -> RomByte(MBC3_rom_index(c, addr))
      [] addr \in 40960..49151 ->
            IF c.ram_enable
            THEN IF c.ram_bank_no \in 0..3
                 THEN MemGet(c.ram, MBC3_ram_index(c, addr))
                 ELSE Rtc_read(c.rtc, c.ram_bank_no)
            ELSE 0

MBC3_read_panics(c, addr) ==
    CASE addr \in 0..16383 -> FALSE
      [] addr \in 16384..32767 -> MBC3_rom_index(c, addr) >= c.rom_len
      [] addr \in 40960..49151 ->
            /\ c.ram_enable
            /\ \/ c.ram_bank_no \in 0..3 /\ MBC3_ram_index(c, addr) >= c.ram_len
               \/ c.ram_bank_no \notin (0..3) \cup (8..12)
      [] OTHER -> TRUE

MBC3_write(c, addr, value) ==
    CASE addr \in 0..8191 -> [c EXCEPT !.ram_enable = (BitAnd(value, 15) = 10)]
      [] addr \in 8192..16383 ->
            [c EXCEPT !.rom_bank_no =
                IF BitAnd(value, 127) = 0 THEN 1 ELSE BitAnd(value, 127)]
      [] addr \in 16384..24575 -> [c EXCEPT !.ram_bank_no = BitAnd(value, 15)]
      [] addr \in 24576..32767 ->
            IF BitAnd(value, 1) # 0
            THEN [c EXCEPT !.rtc = tic(@, ElapsedSeconds)]
            ELSE c
      [] addr \in 40960..49151 ->
            IF c.ram_enable
            THEN IF c.ram_bank_no \in 0..3
                 THEN [c EXCEPT !.ram = MemSet(@, MBC3_ram_index(c, addr), value)]
                 ELSE [c EXCEPT !.rtc = Rtc_write(@, c.ram_bank_no, value)]
            ELSE c

MBC3_write_panics(c, addr, value) ==
    CASE addr \in 0..32767 -> FALSE
      [] addr \in 40960..49151 ->
            /\ c.ram_enable
            /\ \/ c.ram_bank_no \in 0..3 /\ MBC3_ram_index(c, addr) >= c.ram_len
               \/ c.ram_bank_no \notin (0..3) \cup (8..12)
      [] OTHER -> TRUE

MBC5_new(rom_code, ram_code) ==
    [kind |-> "MBC5", rom_len |-> RomLen(rom_code), ram |-> EmptyMem,
     ram_len |-> RamLen(ram_code), rom_bank_no |-> 0, ram_bank_no |-> 0,
     ram_enable |-> FALSE]

MBC5_rom_index(c, addr) == c.rom_bank_no * 16384 + addr - 16384

MBC5_ram_index(c, addr) == c.ram_bank_no * 8192 + addr - 40960

MBC5_read(c, addr) ==
    CASE addr \in 0..16383 -> RomByte(addr)
      [] addr \in 16384..32767 -> RomByte(MBC5_rom_index(c, addr))
      [] addr \in 40960..49151 ->
            IF c.ram_enable THEN MemGet(c.ram, MBC5_ram_index(c, addr)) ELSE 0
      [] OTHER -> 0

MBC5_read_panics(c, addr) ==
    CASE addr \in 16384..32767 -> MBC5_rom_index(c, addr) >= c.rom_len
      [] addr \in 40960..49151 ->
            c.ram_enable /\ MBC5_ram_index(c, addr) >= c.ram_len
      [] OTHER -> FALSE

MBC5_write(c, addr, value) ==
    CASE addr \in 0..8191 -> [c EXCEPT !.ram_enable = (BitAnd(value, 15) = 10)]
      [] addr \in 8192..12287 ->
            [c EXCEPT !.rom_bank_no = BitOr(BitAnd(@, 256), value)]
      [] addr \in 12288..16383 ->
            [c EXCEPT !.rom_bank_no = BitOr(BitAnd(@, 255), BitAnd(value, 1) * 256)]
      [] addr \in 16384..24575 -> [c EXCEPT !.ram_bank_no = BitAnd(value, 15)]
      [] addr \in 40960..49151 ->
            IF c.ram_enable
            THEN [c EXCEPT !.ram = MemSet(@, MBC5_ram_index(c, addr), value)]
            ELSE c
      [] OTHER -> c

MBC5_write_panics(c, addr, value) ==
    addr \in 40960..49151 /\ c.ram_enable /\ MBC5_ram_index(c, addr) >= c.ram_len

\* Box<dyn Cartridge>: the call goes to the variant's method
Cartridge_read(c, addr) ==
    CASE c.kind = "RomOnly" -> RomOnly_read(c, addr)
      [] c.kind = "MBC1" -> MBC1_read(c, addr)
      [] c.kind = "MBC2" -> MBC2_read(c, addr)
      [] c.kind = "MBC3" -> MBC3_read(c, addr)
      [] c.kind = "MBC5" -> MBC5_read(c, addr)

Cartridge_read_panics(c, addr) ==
    CASE c.kind = "RomOnly" -> RomOnly_read_panics(c, addr)
      [] c.kind = "MBC1" -> MBC1_read_panics(c, addr)
      [] c.kind = "MBC2" -> MBC2_read_panics(c, addr)
      [] c.kind = "MBC3" -> MBC3_read_panics(c, addr)
      [] c.kind = "MBC5" -> MBC5_read_panics(c, addr)

Cartridge_write(c, addr, value) ==
    CASE c.kind = "RomOnly" -> RomOnly_write(c, addr, value)
      [] c.kind = "MBC1" -> MBC1_write(c, addr, value)
      [] c.kind = "MBC2" -> MBC2_write(c, addr, value)
      [] c.kind = "MBC3" -> MBC3_write(c, addr, value)
      [] c.kind = "MBC5" -> MBC5_write(c, addr, value)

Cartridge_write_panics(c, addr, value) ==
    CASE c.kind = "RomOnly" -> FALSE
      [] c.kind = "MBC1" -> MBC1_write_panics(c, addr, value)
      [] c.kind = "MBC2" -> MBC2_write_panics(c, addr, value)
      [] c.kind = "MBC3" -> MBC3_write_panics(c, addr, value)
      [] c.kind = "MBC5" -> MBC5_write_panics(c, addr, value)

\* the external RAM buffer and its enable latch, whatever the variant
Cartridge_ram(c) == IF c.kind = "RomOnly" THEN EmptyMem ELSE c.ram

Cartridge_ram_enabled(c) ==
    CASE c.kind = "RomOnly" -> FALSE
      [] c.kind = "MBC1" -> c.is_ram_enable
      [] OTHER -> c.ram_enable

(***************************************************************************)
(* MMU (src/src/mmu.rs).  History fields: update_log lists the arguments   *)
(* of the update() calls of the current step and raised_log the IRQ lines  *)
(* each of them found high at its latch; panicked is set when a call       *)
(* aborts (a panic!, todo! or assert! arm, or an index out of bounds).     *)
(* Mmu::new loads the cartridge from a file: Mmu_new holds a 32 KiB        *)
(* ROM-only image, and the specifications below put other cartridges in    *)
(* its place.                                                              *)
(***************************************************************************)
Mmu_new ==
    [cartridge |-> RomOnly_new(0),
     ppu |-> Ppu_new, joypad |-> Joypad_new, serial |-> Serial_new,
     timer |-> Timer_new, wram |-> Wram_new,
     interrupt_flag |-> 0, interrupt_enable |-> 0, hram |-> EmptyMem,
     update_log |-> <<>>, raised_log |-> <<>>, panicked |-> FALSE]

\* Interrupt kinds are named by their bit number in IF and IE.
IntVBlank == 0
IntLCDStat == 1
IntTimer == 2
IntSerial == 3
IntJoypad == 4

reset_interrupt(m, interrupt_type) ==
    [m EXCEPT !.interrupt_flag = BitClear(@, 2 ^ interrupt_type)]

\* The I/O addresses that write_byte names in an arm of its own; the others
\* of 0xff00..=0xff7f fall to `_ => ()`.  read_byte names the same ones
\* except 0xff46 and 0xff6c, which fall to its `_ => 0x00`.
MappedIo ==
    {65280, 65281, 65282, 65295, 65392} \cup (65284..65287) \cup (65344..65355)
    \cup {65359} \cup (65361..65365) \cup (65384..65388)

Mmu_read_byte(m, addr) ==
    CASE addr \in 0..32767 -> Cartridge_read(m.cartridge, addr)
      [] addr \in 32768..40959 -> Ppu_read(m.ppu, addr)
      [] addr \in 40960..49151 -> Cartridge_read(m.cartridge, addr)
      [] addr \in 49152..57343 -> Wram_read_byte(m.wram, BitAnd(addr, 8191))
      [] addr \in 57344..65023 -> Wram_read_byte(m.wram, BitAnd(addr - 8192, 8191))
      [] addr \in 65024..65183 -> Ppu_read(m.ppu, addr)
      [] addr \in 65184..65279 -> 0
      [] addr = 65280 -> Joypad_read_byte(m.joypad, addr)
      [] addr \in 65281..65282 -> Serial_read(m.serial, addr)
      [] addr = 65295 -> m.interrupt_flag
      [] addr \in 65284..65287 -> Timer_read(m.timer, addr)
      [] addr \in (65344..65349) \cup (65351..65355) -> Ppu_read(m.ppu, addr)
      [] addr = 65359 -> Ppu_read(m.ppu, addr)
      [] addr \in 65361..65365 -> 0
      [] addr \in 65384..65387 -> Ppu_read(m.ppu, addr)
      [] addr = 65392 -> m.wram.bank_index
      [] addr \in 65408..65534 -> MemGet(m.hram, BitAnd(addr, 127))
      [] addr = 65535 -> m.interrupt_enable
      [] addr \in ((65280..65407) \ MappedIo) \cup {65350, 65388} -> 0

\* read_byte aborts where the component it calls does
Mmu_read_panics(m, addr) ==
    CASE addr \in (0..32767) \cup (40960..49151) ->
            Cartridge_read_panics(m.cartridge, addr)
      [] addr \in (65344..65349) \cup (65351..65355) -> Ppu_read_panics(m.ppu, addr)
      [] OTHER -> FALSE

\* write_byte, all arms but 0xff46
Mmu_write_plain(m, addr, value) ==
    CASE addr \in (0..32767) \cup (40960..49151) ->
            IF Cartridge_write_panics(m.cartridge, addr, value)
            THEN [m EXCEPT !.panicked = TRUE]
            ELSE [m EXCEPT !.cartridge = Cartridge_write(@, addr, value)]
      [] addr \in 32768..40959 -> [m EXCEPT !.ppu = Ppu_write(@, addr, value)]
      [] addr \in 49152..57343 ->
            [m EXCEPT !.wram = Wram_write_byte(@, BitAnd(addr, 8191), value)]
      [] addr \in 57344..65023 ->
            [m EXCEPT !.wram = Wram_write_byte(@, BitAnd(addr - 8192, 8191), value)]
      [] addr \in 65024..65183 -> [m EXCEPT !.ppu = Ppu_write(@, addr, value)]
      [] addr \in 65184..65279 -> m
      [] addr = 65280 -> [m EXCEPT !.joypad = Joypad_write_byte(@, addr, value)]
      [] addr = 65295 -> [m EXCEPT !.interrupt_flag = value]
      [] addr \in 65281..65282 -> [m EXCEPT !.serial = Serial_write(@, addr, value)]
      [] addr \in 65284..65287 -> [m EXCEPT !.timer = Timer_write(@, addr, value)]
      [] addr \in (65344..65349) \cup (65351..65355) \cup {65359} \cup (65384..65387) ->
            IF Ppu_write_panics(m.ppu, addr, value)
            THEN [m EXCEPT !.panicked = TRUE]
            ELSE [m EXCEPT !.ppu = Ppu_write(@, addr, value)]
      [] addr \in 65361..65365 -> m
      [] addr = 65388 -> [m EXCEPT !.panicked = TRUE]
      [] addr = 65392 ->
            IF value >= 8 THEN [m EXCEPT !.panicked = TRUE]
            ELSE [m EXCEPT !.wram.bank_index = value]
      [] addr \in 65408..65534 -> [m EXCEPT !.hram = MemSet(@, BitAnd(addr, 127), value)]
      [] addr = 65535 -> [m EXCEPT !.interrupt_enable = value]
      [] addr \in (65280..65407) \ MappedIo -> m

\* one iteration of the loop of do_dma: read_byte(src_base | i), then
\* write_byte(0xfe00 | i, tmp)
do_dma_at(m, src_base, i) ==
    IF m.panicked THEN m
    ELSE IF Mmu_read_panics(m, src_base + i) THEN [m EXCEPT !.panicked = TRUE]
    ELSE Mmu_write_plain(m, 65024 + i, Mmu_read_byte(m, src_base + i))

\* the iterations lo .. hi - 1 in order: the first half, then the second
\* half from the MMU the first half left, unless that half has aborted
RECURSIVE do_dma_range(_, _, _, _)
do_dma_range(m, src_base, lo, hi) ==
    IF m.panicked THEN m
    ELSE IF hi - lo = 1 THEN do_dma_at(m, src_base, lo)
    ELSE do_dma_range(do_dma_range(m, src_base, lo, (lo + hi) \div 2),
                      src_base, (lo + hi) \div 2, hi)

do_dma(m, val) ==
    IF val > 241 THEN [m EXCEPT !.panicked = TRUE]
    ELSE do_dma_range(m, val * U8, 0, 160)

Mmu_write_byte(m, addr, value) ==
    IF addr = 65350 THEN do_dma(m, value) ELSE Mmu_write_plain(m, addr, value)

\* lines 154-155: the peripherals advance by `clock`
Mmu_tick(m, clock) ==
    [m EXCEPT !.ppu = Ppu_update(@, clock),
              !.timer = Timer_update(@, clock),
              !.update_log = Append(@, clock)]

\* the IRQ lines that are high when update() reaches its latch
RaisedLines(m) ==
    (IF is_irq_vblank(m.ppu) THEN {IntVBlank} ELSE {})
    \cup (IF is_irq_lcdc(m.ppu) THEN {IntLCDStat} ELSE {})
    \cup (IF is_irq_timer(m.timer) THEN {IntTimer} ELSE {})
    \cup (IF m.joypad.irq THEN {IntJoypad} ELSE {})

\* lines 157-160
latch_vblank(m) ==
    IF is_irq_vblank(m.ppu)
    THEN [m EXCEPT !.interrupt_flag = BitOr(@, 1), !.ppu = set_irq_vblank(@, FALSE)]
    ELSE m

\* lines 162-165
latch_lcdc(m) ==
    IF is_irq_lcdc(m.ppu)
    THEN [m EXCEPT !.interrupt_flag = BitOr(@, 2), !.ppu = set_irq_lcdc(@, FALSE)]
    ELSE m

\* lines 167-170
latch_timer(m) ==
    IF is_irq_timer(m.timer)
    THEN [m EXCEPT !.interrupt_flag = BitOr(@, 4), !.timer = set_irq_timer(@, FALSE)]
    ELSE m

\* the joypad line latched into bit 3
latch_joypad_bit3(m) ==
    IF m.joypad.irq
    THEN [m EXCEPT !.interrupt_flag = BitOr(@, 8), !.joypad.irq = FALSE]
    ELSE m

\* lines 172-175
latch_joypad(m) ==
    IF m.joypad.irq
    THEN [m EXCEPT !.interrupt_flag = BitOr(@, 16), !.joypad.irq = FALSE]
    ELSE m

\* lines 157-175, applied to the MMU whose peripherals have advanced
Mmu_latch(m) ==
    [latch_joypad(latch_timer(latch_lcdc(latch_vblank(m))))
        EXCEPT !.raised_log = Append(@, RaisedLines(m))]

Mmu_update(m, clock) == Mmu_latch(Mmu_tick(m, clock))

(***************************************************************************)
(* CPU (src/src/cpu.rs).  int_log is a history field: the interrupts that  *)
(* exec_interrupt serviced during the current step, in order.              *)
(***************************************************************************)
Cpu_new ==
    [a |-> 0, f |-> 0, b |-> 0, c |-> 0, d |-> 0, e |-> 0, h |-> 0, l |-> 0,
     sp |-> 0, pc |-> 256,
     zero_flag |-> FALSE, subtraction_flag |-> FALSE,
     half_carry_flag |-> FALSE, carry_flag |-> FALSE,
     mmu |-> Mmu_new, clock |-> 0, ime |-> FALSE, halt |-> FALSE,
     total_elapsed_clock |-> 0,
     int_log |-> <<>>, overflowed |-> FALSE]

add_program_count(c, count) == [c EXCEPT !.pc = wrapping_add16(@, count)]
add_clock(c, count) == [c EXCEPT !.clock = wrapping_add32(@, count)]

write_word(c, addr, value) ==
    [c EXCEPT !.mmu = Mmu_write_byte(Mmu_write_byte(@, addr, value % U8),
                                     wrapping_add16(addr, 1), Shr(value, 8))]

\* `self.write_word(self.sp, self.pc)`
push_pc(c) == write_word(c, c.sp, c.pc)

read_word(c, addr) ==
    Mmu_read_byte(c.mmu, wrapping_add16(addr, 1)) * U8 + Mmu_read_byte(c.mmu, addr)

Vector(interrupt_type) ==
    CASE interrupt_type = IntVBlank -> 64
      [] interrupt_type = IntLCDStat -> 72
      [] interrupt_type = IntTimer -> 80
      [] interrupt_type = IntSerial -> 88
      [] interrupt_type = IntJoypad -> 96

\* exec_interrupt without `self.halt = false`
exec_interrupt_keep_halt(c, interrupt_type) ==
    [add_clock(
        push_pc([c EXCEPT !.ime = FALSE,
                          !.mmu = reset_interrupt(@, interrupt_type),
                          !.int_log = Append(@, interrupt_type),
                          !.sp = wrapping_sub16(@, 2)]),
        20)
     EXCEPT !.pc = Vector(interrupt_type), !.mmu = Mmu_update(@, 20)]

exec_interrupt(c, interrupt_type) ==
    [add_clock(
        push_pc([c EXCEPT !.ime = FALSE, !.halt = FALSE,
                          !.mmu = reset_interrupt(@, interrupt_type),
                          !.int_log = Append(@, interrupt_type),
                          !.sp = wrapping_sub16(@, 2)]),
        20)
     EXCEPT !.pc = Vector(interrupt_type), !.mmu = Mmu_update(@, 20)]

\* The body of `for bit in 0..=4`, from `bit` on; interrupt_source is read
\* once, before the loop.
RECURSIVE handle_interrupt_from(_, _, _)
handle_interrupt_from(c, interrupt_source, bit) ==
    IF bit > 4 THEN c
    ELSE IF BitAnd(interrupt_source, 2 ^ bit) # 0
    THEN handle_interrupt_from(exec_interrupt(c, bit), interrupt_source, bit + 1)
    ELSE handle_interrupt_from(c, interrupt_source, bit + 1)

handle_interrupt(c) ==
    handle_interrupt_from(
        c, BitAnd(c.mmu.interrupt_flag, c.mmu.interrupt_enable), 0)

(***************************************************************************)
(* Instructions.  The bytes that follow the opcode are read from the       *)
(* cartridge at pc and pc + 1; they are the parameters n, low and high.    *)
(***************************************************************************)
nop(c) == add_clock(c, 4)

\* Cpu::halt setting halt whatever IME is
halt_always(c) == add_clock([c EXCEPT !.halt = TRUE], 4)

halt(c) == add_clock(IF c.ime THEN [c EXCEPT !.halt = TRUE] ELSE c, 4)

stop(c) == add_clock(c, 4)

di(c) == add_clock([c EXCEPT !.ime = FALSE], 4)

ei(c) == add_clock([c EXCEPT !.ime = TRUE], 4)

load_a_d8(c, n) == add_clock(add_program_count([c EXCEPT !.a = n], 1), 8)

\* load_r1_r2(Register::B, Register::A), opcode 0x47
load_b_a(c) == add_clock([c EXCEPT !.b = c.a], 4)

load_n_a(c, n) ==
    add_clock(
        add_program_count([c EXCEPT !.mmu = Mmu_write_byte(@, 65280 + n, c.a)], 1),
        12)

\* load_n_nn(Register::SP), opcode 0x31
load_sp_nn(c, low, high) ==
    add_clock(add_program_count([c EXCEPT !.sp = high * U8 + low], 2), 12)

call_nn(c, low, high) ==
    add_clock(
        [push_pc([add_program_count(c, 2) EXCEPT !.sp = wrapping_sub16(@, 2)])
            EXCEPT !.pc = high * U8 + low],
        24)

(***************************************************************************)
(* Flags.  The struct keeps each flag as a bool and as a bit of f; the     *)
(* four setters are the only writers of either.                            *)
(***************************************************************************)
set_zero_flag(c, flag) ==
    [c EXCEPT !.zero_flag = flag,
              !.f = BitOr(BitClear(@, 128), IF flag THEN 128 ELSE 0)]

set_subtraction_flag(c, flag) ==
    [c EXCEPT !.subtraction_flag = flag,
              !.f = BitOr(BitClear(@, 64), IF flag THEN 64 ELSE 0)]

set_half_carry_flag(c, flag) ==
    [c EXCEPT !.half_carry_flag = flag,
              !.f = BitOr(BitClear(@, 32), IF flag THEN 32 ELSE 0)]

set_carry_flag(c, flag) ==
    [c EXCEPT !.carry_flag = flag,
              !.f = BitOr(BitClear(@, 16), IF flag THEN 16 ELSE 0)]

get_byte_from_flags(c) ==
    BitOr(BitOr(IF c.zero_flag THEN 128 ELSE 0,
                IF c.subtraction_flag THEN 64 ELSE 0),
          BitOr(IF c.half_carry_flag THEN 32 ELSE 0,
                IF c.carry_flag THEN 16 ELSE 0))

\* the four bools as the setters leave them, with the byte stored as it is
set_flags_from_byte_raw(c, value) ==
    [c EXCEPT !.zero_flag = BitAnd(value, 128) > 0,
              !.subtraction_flag = BitAnd(value, 64) > 0,
              !.half_carry_flag = BitAnd(value, 32) > 0,
              !.carry_flag = BitAnd(value, 16) > 0,
              !.f = value]

set_flags_from_byte(c, value) ==
    set_carry_flag(
        set_half_carry_flag(
            set_subtraction_flag(
                set_zero_flag(c, BitAnd(value, 128) > 0),
                BitAnd(value, 64) > 0),
            BitAnd(value, 32) > 0),
        BitAnd(value, 16) > 0)

\* the four setter calls that end most arithmetic handlers, in their order
set_flags(c, z, n, h, cy) ==
    set_carry_flag(
        set_half_carry_flag(set_subtraction_flag(set_zero_flag(c, z), n), h),
        cy)

\* a panic! arm that falls through
abort_ignored(c) == c

\* a panic! arm: the process is gone
abort(c) == [c EXCEPT !.mmu.panicked = TRUE]

get_addr_from_registers(high_register, low_register) ==
    high_register * U8 + low_register

\* Registers are named by the variants of enum Register.
read_r8(c, reg) ==
    CASE reg = "A" -> c.a
      [] reg = "B" -> c.b
      [] reg = "C" -> c.c
      [] reg = "D" -> c.d
      [] reg = "E" -> c.e
      [] reg = "H" -> c.h
      [] reg = "L" -> c.l
      [] reg = "HL" -> Mmu_read_byte(c.mmu, get_addr_from_registers(c.h, c.l))

read_r8_panics(c, reg) ==
    reg = "HL" /\ Mmu_read_panics(c.mmu, get_addr_from_registers(c.h, c.l))

write_r8(c, reg, value) ==
    CASE reg = "A" -> [c EXCEPT !.a = value]
      [] reg = "B" -> [c EXCEPT !.b = value]
      [] reg = "C" -> [c EXCEPT !.c = value]
      [] reg = "D" -> [c EXCEPT !.d = value]
      [] reg = "E" -> [c EXCEPT !.e = value]
      [] reg = "H" -> [c EXCEPT !.h = value]
      [] reg = "L" -> [c EXCEPT !.l = value]
      [] reg = "HL" ->
            [c EXCEPT !.mmu =
                Mmu_write_byte(@, get_addr_from_registers(c.h, c.l), value)]

(***************************************************************************)
(* PUSH and POP.  A register pair is named by its two registers.  pop_nn   *)
(* advances sp with `+= 1`, which wraps in a build without overflow checks *)
(* and aborts in a build with them: the model wraps and sets the history   *)
(* field `overflowed`, and a state with that field set stands for both     *)
(* outcomes.                                                               *)
(***************************************************************************)
push_high(c, pair) ==
    CASE pair = "AF" -> c.a
      [] pair = "BC" -> c.b
      [] pair = "DE" -> c.d
      [] pair = "HL" -> c.h

push_low(c, pair) ==
    CASE pair = "AF" -> get_byte_from_flags(c)
      [] pair = "BC" -> c.c
      [] pair = "DE" -> c.e
      [] pair = "HL" -> c.l

\* lines 656-669, from the machine with sp already lowered
push_write(c, pair) ==
    write_word(c, c.sp, push_high(c, pair) * U8 + push_low(c, pair))

push_nn(c, pair) ==
    add_clock(push_write([c EXCEPT !.sp = wrapping_sub16(@, 2)], pair), 16)

\* lines 689-707
pop_load(c, pair, high_value, low_value) ==
    CASE pair = "AF" -> set_flags_from_byte([c EXCEPT !.a = high_value], low_value)
      [] pair = "BC" -> [c EXCEPT !.b = high_value, !.c = low_value]
      [] pair = "DE" -> [c EXCEPT !.d = high_value, !.e = low_value]
      [] pair = "HL" -> [c EXCEPT !.h = high_value, !.l = low_value]

pop_nn_panics(c) ==
    \/ Mmu_read_panics(c.mmu, c.sp)
    \/ Mmu_read_panics(c.mmu, wrapping_add16(c.sp, 1))

\* lines 679-682 and 709; a pop from 0xFFFE or 0xFFFF overflows sp
pop_nn(c, pair) ==
    IF pop_nn_panics(c) THEN abort(c)
    ELSE add_clock(
            pop_load([c EXCEPT !.sp = wrapping_add16(@, 2),
                               !.overflowed = @ \/ c.sp >= 65534],
                     pair,
                     Mmu_read_byte(c.mmu, wrapping_add16(c.sp, 1)),
                     Mmu_read_byte(c.mmu, c.sp)),
            12)

(***************************************************************************)
(* Arithmetic handlers that set flags.                                     *)
(***************************************************************************)
\* xor_r8 for the seven registers its match names
xor_r8(c, reg) ==
    add_clock(
        set_flags([c EXCEPT !.a = BitOr(@, read_r8(c, reg)) - BitAnd(@, read_r8(c, reg))],
                  BitOr(c.a, read_r8(c, reg)) = BitAnd(c.a, read_r8(c, reg)),
                  FALSE, FALSE, FALSE),
        4)

add_a_d8(c, n) ==
    add_clock(
        add_program_count(
            set_flags([c EXCEPT !.a = (@ + n) % U8],
                      (c.a + n) % U8 = 0, FALSE,
                      (c.a % 16) + (n % 16) > 15,
                      c.a + n >= U8),
            1),
        8)

ccf(c) ==
    add_clock(
        set_carry_flag(set_half_carry_flag(set_subtraction_flag(c, FALSE), FALSE),
                       ~c.carry_flag),
        4)

scf(c) ==
    add_clock(
        set_carry_flag(set_half_carry_flag(set_subtraction_flag(c, FALSE), FALSE),
                       TRUE),
        4)

(***************************************************************************)
(* INC and DEC of a register and of (HL), ADD and SUB of a register, DAA.  *)
(***************************************************************************)
\* inc_r8 with the half carry taken from the new value
inc_r8_half_new(c, reg) ==
    add_clock(
        set_half_carry_flag(
            set_subtraction_flag(
                set_zero_flag(write_r8(c, reg, wrapping_add8(read_r8(c, reg), 1)),
                              wrapping_add8(read_r8(c, reg), 1) = 0),
                FALSE),
            BitAnd(wrapping_add8(read_r8(c, reg), 1), 15) = 15),
        4)

\* `value` is the register plus one; the half carry comes from value - 1
inc_r8(c, reg) ==
    add_clock(
        set_half_carry_flag(
            set_subtraction_flag(
                set_zero_flag(write_r8(c, reg, wrapping_add8(read_r8(c, reg), 1)),
                              wrapping_add8(read_r8(c, reg), 1) = 0),
                FALSE),
            BitAnd(wrapping_sub8(wrapping_add8(read_r8(c, reg), 1), 1), 15) = 15),
        4)

inc_hl(c) ==
    add_clock(
        set_half_carry_flag(
            set_subtraction_flag(
                set_zero_flag(write_r8(c, "HL", wrapping_add8(read_r8(c, "HL"), 1)),
                              wrapping_add8(read_r8(c, "HL"), 1) = 0),
                FALSE),
            BitAnd(wrapping_sub8(wrapping_add8(read_r8(c, "HL"), 1), 1), 15) = 15),
        12)

\* the half carry comes from value + 1, value being the register minus one
dec_r8(c, reg) ==
    add_clock(
        set_half_carry_flag(
            set_subtraction_flag(
                set_zero_flag(write_r8(c, reg, wrapping_sub8(read_r8(c, reg), 1)),
                              wrapping_sub8(read_r8(c, reg), 1) = 0),
                TRUE),
            BitAnd(wrapping_add8(wrapping_sub8(read_r8(c, reg), 1), 1), 15) = 0),
        4)

\* the half carry comes from the new value: its low nibble is 0xF
dec_hl(c) ==
    add_clock(
        set_half_carry_flag(
            set_subtraction_flag(
                set_zero_flag(write_r8(c, "HL", wrapping_sub8(read_r8(c, "HL"), 1)),
                              wrapping_sub8(read_r8(c, "HL"), 1) = 0),
                TRUE),
            BitAnd(wrapping_sub8(read_r8(c, "HL"), 1), 15) = 15),
        12)

add_a_r(c, reg) ==
    add_clock(
        set_flags([c EXCEPT !.a = (@ + read_r8(c, reg)) % U8],
                  (c.a + read_r8(c, reg)) % U8 = 0,
                  FALSE,
                  BitAnd(c.a, 15) + BitAnd(read_r8(c, reg), 15) > 15,
                  c.a + read_r8(c, reg) >= U8),
        4)

sub_a_n(c, reg) ==
    add_clock(
        set_flags([c EXCEPT !.a = wrapping_sub8(@, read_r8(c, reg))],
                  wrapping_sub8(c.a, read_r8(c, reg)) = 0,
                  TRUE,
                  BitAnd(c.a, 15) < BitAnd(read_r8(c, reg), 15),
                  c.a < read_r8(c, reg)),
        4)

\* the adjusted accumulator: lines 1748-1764
daa_add_high(c) ==
    IF c.carry_flag \/ c.a > 153 THEN wrapping_add8(c.a, 96) ELSE c.a

daa_value(c) ==
    IF ~c.subtraction_flag
    THEN IF c.half_carry_flag \/ BitAnd(daa_add_high(c), 15) > 9
         THEN wrapping_add8(daa_add_high(c), 6)
         ELSE daa_add_high(c)
    ELSE IF c.half_carry_flag
         THEN wrapping_sub8(IF c.carry_flag THEN wrapping_sub8(c.a, 96) ELSE c.a, 6)
         ELSE IF c.carry_flag THEN wrapping_sub8(c.a, 96) ELSE c.a

\* daa leaving the carry flag as it found it
daa_keep_carry(c) ==
    add_clock(
        set_half_carry_flag(
            set_zero_flag([c EXCEPT !.a = daa_value(c)], daa_value(c) = 0),
            FALSE),
        4)

daa(c) ==
    add_clock(
        set_half_carry_flag(
            set_zero_flag(
                set_carry_flag([c EXCEPT !.a = daa_value(c)],
                               \/ c.carry_flag
                               \/ (~c.subtraction_flag /\ c.a > 153)),
                daa_value(c) = 0),
            FALSE),
        4)

(***************************************************************************)
(* The CB-prefixed instructions.  Each reads its operand with read_r8,     *)
(* writes the result with write_r8, sets the flags, steps pc over the      *)
(* second opcode byte and takes 8 cycles, or hl_clock with (HL).           *)
(***************************************************************************)
cb_done(c, reg, hl_clock) ==
    add_clock(add_program_count(c, 1), IF reg = "HL" THEN hl_clock ELSE 8)

\* write_r8 and the four setters of the rotates, the shifts and swap
cb_store(c, reg, value, carry_flag) ==
    cb_done(set_flags(write_r8(c, reg, value), value = 0, FALSE, FALSE, carry_flag),
            reg, 16)

rlc_n(c, reg) ==
    cb_store(c, reg, ((read_r8(c, reg) * 2) % U8) + Bit(read_r8(c, reg), 7),
             Bit(read_r8(c, reg), 7) = 1)

rrc_n(c, reg) ==
    cb_store(c, reg, Shr(read_r8(c, reg), 1) + 128 * Bit(read_r8(c, reg), 0),
             Bit(read_r8(c, reg), 0) = 1)

rl_n(c, reg) ==
    cb_store(c, reg,
             ((read_r8(c, reg) * 2) % U8) + (IF c.carry_flag THEN 1 ELSE 0),
             Bit(read_r8(c, reg), 7) = 1)

rr_n(c, reg) ==
    cb_store(c, reg,
             Shr(read_r8(c, reg), 1) + (IF c.carry_flag THEN 128 ELSE 0),
             Bit(read_r8(c, reg), 0) = 1)

sla_n(c, reg) ==
    cb_store(c, reg, (read_r8(c, reg) * 2) % U8, BitAnd(read_r8(c, reg), 128) > 0)

sra_n(c, reg) ==
    cb_store(c, reg, Shr(read_r8(c, reg), 1) + BitAnd(read_r8(c, reg), 128),
             Bit(read_r8(c, reg), 0) = 1)

swap(c, reg) ==
    cb_store(c, reg,
             Shr(BitAnd(read_r8(c, reg), 240), 4) + BitAnd(read_r8(c, reg), 15) * 16,
             FALSE)

srl_n(c, reg) ==
    cb_store(c, reg, Shr(read_r8(c, reg), 1), Bit(read_r8(c, reg), 0) = 1)

bit(c, reg, b) ==
    cb_done(
        set_half_carry_flag(
            set_subtraction_flag(set_zero_flag(c, Bit(read_r8(c, reg), b) = 0), FALSE),
            TRUE),
        reg, 12)

res(c, reg, b) ==
    cb_done(write_r8(c, reg, BitClear(read_r8(c, reg), 2 ^ b)), reg, 16)

set(c, reg, b) ==
    cb_done(write_r8(c, reg, BitOr(read_r8(c, reg), 2 ^ b)), reg, 16)

\* lines 2324-2334: the operand named by the low three bits
prefix_cb_reg(opcode) ==
    CASE opcode % 8 = 0 -> "B"
      [] opcode % 8 = 1 -> "C"
      [] opcode % 8 = 2 -> "D"
      [] opcode % 8 = 3 -> "E"
      [] opcode % 8 = 4 -> "H"
      [] opcode % 8 = 5 -> "L"
      [] opcode % 8 = 6 -> "HL"
      [] opcode % 8 = 7 -> "A"
      [] OTHER -> "panic"

\* lines 2336-2348: the handler named by the range of the opcode
prefix_cb_handler(opcode) ==
    CASE opcode \in 0..7 -> "rlc_n"
      [] opcode \in 8..15 -> "rrc_n"
      [] opcode \in 16..23 -> "rl_n"
      [] opcode \in 24..31 -> "rr_n"
      [] opcode \in 32..39 -> "sla_n"
      [] opcode \in 40..47 -> "sra_n"
      [] opcode \in 48..55 -> "swap"
      [] opcode \in 56..63 -> "srl_n"
      [] opcode \in 64..127 -> "bit"
      [] opcode \in 128..191 -> "res"
      [] opcode \in 192..255 -> "set"

prefix_cb_panics(opcode) == prefix_cb_reg(opcode) = "panic"

prefix_cb_call(c, handler, reg, b) ==
    CASE handler = "rlc_n" -> rlc_n(c, reg)
      [] handler = "rrc_n" -> rrc_n(c, reg)
      [] handler = "rl_n" -> rl_n(c, reg)
      [] handler = "rr_n" -> rr_n(c, reg)
      [] handler = "sla_n" -> sla_n(c, reg)
      [] handler = "sra_n" -> sra_n(c, reg)
      [] handler = "swap" -> swap(c, reg)
      [] handler = "srl_n" -> srl_n(c, reg)
      [] handler = "bit" -> bit(c, reg, b)
      [] handler = "res" -> res(c, reg, b)
      [] handler = "set" -> set(c, reg, b)

\* opcode is the byte at pc, which step() has moved past the 0xCB
prefix_cb(c, opcode) ==
    IF prefix_cb_panics(opcode) \/ read_r8_panics(c, prefix_cb_reg(opcode))
    THEN abort(c)
    ELSE prefix_cb_call(c, prefix_cb_handler(opcode), prefix_cb_reg(opcode),
                        Shr(opcode, 3) % 8)

(***************************************************************************)
(* exec's match: the handler each of the 256 opcodes names.  "panic" is    *)
(* an arm that aborts.                                                     *)
(***************************************************************************)
Handler ==
  <<
     "nop", "load_n_nn", "load_nn_a", "inc_r16", "inc_r8", "dec_r8",
     "load_nn_n", "rlca", "load_nn_sp", "add_hl_n", "load_a_nn", "dec_r16",
     "inc_r8", "dec_r8", "load_nn_n", "rrca",
     "stop", "load_n_nn", "load_nn_a", "inc_r16", "inc_r8", "dec_r8",
     "load_nn_n", "rla", "jr_n", "add_hl_n", "load_a_nn", "dec_r16",
     "inc_r8", "dec_r8", "load_nn_n", "rra",
     "jr_cc_n", "load_n_nn", "load_hli_a", "inc_r16", "inc_r8", "dec_r8",
     "load_nn_n", "daa", "jr_cc_n", "add_hl_n", "load_a_hli", "dec_r16",
     "inc_r8", "dec_r8", "load_nn_n", "cpl",
     "jr_cc_n", "load_n_nn", "load_hld_a", "inc_r16", "inc_hl", "dec_hl",
     "load_hl_imm", "scf", "jr_cc_n", "add_hl_n", "load_a_hld", "dec_r16",
     "inc_r8", "dec_r8", "load_a_d8", "ccf",
     "load_r1_r2", "load_r1_r2", "load_r1_r2", "load_r1_r2", "load_r1_r2",
     "load_r1_r2", "load_r1_hl", "load_r1_r2", "load_r1_r2", "load_r1_r2",
     "load_r1_r2", "load_r1_r2", "load_r1_r2", "load_r1_r2", "load_r1_hl",
     "load_r1_r2",
     "load_r1_r2", "load_r1_r2", "load_r1_r2", "load_r1_r2", "load_r1_r2",
     "load_r1_r2", "load_r1_hl", "load_r1_r2", "load_r1_r2", "load_r1_r2",
     "load_r1_r2", "load_r1_r2", "load_r1_r2", "load_r1_r2", "load_r1_hl",
     "load_r1_r2",
     "load_r1_r2", "load_r1_r2", "load_r1_r2", "load_r1_r2", "load_r1_r2",
     "load_r1_r2", "load_r1_hl", "load_r1_r2", "load_r1_r2", "load_r1_r2",
     "load_r1_r2", "load_r1_r2", "load_r1_r2", "load_r1_r2", "load_r1_hl",
     "load_r1_r2",
     "load_hl_r1", "load_hl_r1", "load_hl_r1", "load_hl_r1", "load_hl_r1",
     "load_hl_r1", "halt", "load_hl_r1", "load_r1_r2", "load_r1_r2",
     "load_r1_r2", "load_r1_r2", "load_r1_r2", "load_r1_r2", "load_r1_hl",
     "load_r1_r2",
     "add_a_r", "add_a_r", "add_a_r", "add_a_r", "add_a_r", "add_a_r",
     "add_a_hl", "add_a_r", "adc_a_n", "adc_a_n", "adc_a_n", "adc_a_n",
     "adc_a_n", "adc_a_n", "adc_a_hl", "adc_a_n",
     "sub_a_n", "sub_a_n", "sub_a_n", "sub_a_n", "sub_a_n", "sub_a_n",
     "sub_a_hl", "sub_a_n", "sbc_a_n", "sbc_a_n", "sbc_a_n", "sbc_a_n",
     "sbc_a_n", "sbc_a_n", "sbc_a_hl", "sbc_a_n",
     "and_r8", "and_r8", "and_r8", "and_r8", "and_r8", "and_r8", "and_hl",
     "and_r8", "xor_r8", "xor_r8", "xor_r8", "xor_r8", "xor_r8", "xor_r8",
     "xor_hl", "xor_r8",
     "or_r8", "or_r8", "or_r8", "or_r8", "or_r8", "or_r8", "or_hl", "or_r8",
     "cp_r8", "cp_r8", "cp_r8", "cp_r8", "cp_r8", "cp_r8", "cp_hl", "cp_r8",
     "ret_cc", "pop_nn", "jump_cc_nn", "jp_nn", "call_cc_nn", "push_nn",
     "add_a_d8", "rst_n", "ret_cc", "ret", "jump_cc_nn", "prefix_cb",
     "call_cc_nn", "call_nn", "adc_a_d8", "rst_n",
     "ret_cc", "pop_nn", "jump_cc_nn", "panic", "call_cc_nn", "push_nn",
     "sub_a_d8", "rst_n", "ret_cc", "reti", "jump_cc_nn", "panic",
     "call_cc_nn", "panic", "sbc_a_d8", "rst_n",
     "load_n_a", "pop_nn", "load_c_a", "panic", "panic", "push_nn", "and_d8",
     "rst_n", "add_sp_d8", "jump_hl", "load_imm_a", "panic", "panic",
     "panic", "xor_d8", "rst_n",
     "load_a_n", "pop_nn", "load_a_c", "di", "panic", "push_nn", "or_d8",
     "rst_n", "load_sp_n", "load_sp_hl", "load_a_imm", "ei", "panic",
     "panic", "cp_d8", "rst_n"
  >>

exec_panics(opcode) == Handler[opcode + 1] = "panic"

OpScf == 55
OpCcf == 63
OpXorA == 175
OpPopBC == 193
OpPushBC == 197
OpAddD8 == 198
OpPrefixCb == 203
OpPopDE == 209
OpPushDE == 213
OpPopHL == 225
OpPushHL == 229
OpPopAF == 241
OpPushAF == 245

\* the operand of an opcode's register field, 0..7
R8Names == <<"B", "C", "D", "E", "H", "L", "HL", "A">>

\* INC r and DEC r (0x04 .. 0x3D), ADD A,r and SUB r (0x80 .. 0x97),
\* without the (HL) forms
IncR8Opcodes == {4, 12, 20, 28, 36, 44, 60}
DecR8Opcodes == {5, 13, 21, 29, 37, 45, 61}
AddAROpcodes == {128, 129, 130, 131, 132, 133, 135}
SubANOpcodes == {144, 145, 146, 147, 148, 149, 151}
OpDaa == 39
OpIncHL == 52
OpDecHL == 53

OpNop == 0
OpStop == 16
OpLdSp == 49
OpLdA == 62
OpLdBA == 71
OpHalt == 118
OpCall == 205
OpLdhNA == 224
OpDi == 243
OpEi == 251

exec(c, opcode, n1, n2) ==
    CASE opcode = OpNop -> nop(c)
      [] opcode = OpStop -> stop(c)
      [] opcode = OpLdSp -> load_sp_nn(c, n1, n2)
      [] opcode = OpLdA -> load_a_d8(c, n1)
      [] opcode = OpLdBA -> load_b_a(c)
      [] opcode = OpHalt -> halt(c)
      [] opcode = OpCall -> call_nn(c, n1, n2)
      [] opcode = OpLdhNA -> load_n_a(c, n1)
      [] opcode = OpDi -> di(c)
      [] opcode = OpEi -> ei(c)
      [] opcode = OpScf -> scf(c)
      [] opcode = OpCcf -> ccf(c)
      [] opcode = OpXorA -> xor_r8(c, "A")
      [] opcode = OpAddD8 -> add_a_d8(c, n1)
      [] opcode = OpPrefixCb -> prefix_cb(c, n1)
      [] opcode = OpPushBC -> push_nn(c, "BC")
      [] opcode = OpPushDE -> push_nn(c, "DE")
      [] opcode = OpPushHL -> push_nn(c, "HL")
      [] opcode = OpPushAF -> push_nn(c, "AF")
      [] opcode = OpPopBC -> pop_nn(c, "BC")
      [] opcode = OpPopDE -> pop_nn(c, "DE")
      [] opcode = OpPopHL -> pop_nn(c, "HL")
      [] opcode = OpPopAF -> pop_nn(c, "AF")
      [] opcode \in IncR8Opcodes -> inc_r8(c, R8Names[(opcode \div 8) + 1])
      [] opcode \in DecR8Opcodes -> dec_r8(c, R8Names[(opcode \div 8) + 1])
      [] opcode = OpIncHL ->
            IF read_r8_panics(c, "HL") THEN abort(c) ELSE inc_hl(c)
      [] opcode = OpDecHL ->
            IF read_r8_panics(c, "HL") THEN abort(c) ELSE dec_hl(c)
      [] opcode = OpDaa -> daa(c)
      [] opcode \in AddAROpcodes -> add_a_r(c, R8Names[(opcode % 8) + 1])
      [] opcode \in SubANOpcodes -> sub_a_n(c, R8Names[(opcode % 8) + 1])
      [] exec_panics(opcode) -> abort(c)

(***************************************************************************)
(* step(): the three phases of cpu.rs lines 122-150.                       *)
(***************************************************************************)
\* lines 122-132: a halt tick or one instruction; the cycles it took
\* line 127: the cycles the instruction took
exec_result(c, before_clock) ==
    [cpu |-> c, elapse_clock |-> wrapping_sub32(c.clock, before_clock)]

step_exec(c, opcode, n1, n2) ==
    IF c.halt
    THEN [cpu |-> add_clock(c, 4), elapse_clock |-> 4]
    ELSE exec_result(exec(add_program_count(c, 1), opcode, n1, n2), c.clock)

\* line 134
step_update(c, elapse_clock) ==
    [c EXCEPT !.mmu = Mmu_update(@, elapse_clock % U8)]

\* lines 141-145
step_interrupt(c) == IF c.ime THEN handle_interrupt(c) ELSE c

\* lines 141-149, from the machine `mid` that the update left; r is the
\* outcome of step_exec.  ret is the returned `elapse_clock as u16`.
step_finish(r, mid) ==
    [cpu |-> [step_interrupt(mid) EXCEPT !.total_elapsed_clock = @ + r.elapse_clock],
     ret |-> r.elapse_clock % U16,
     exec |-> r.cpu, mid |-> mid]

\* the interrupt check made before the peripherals are updated
step_check_first(r) ==
    [cpu |-> [step_update(step_interrupt(r.cpu), r.elapse_clock)
                EXCEPT !.total_elapsed_clock = @ + r.elapse_clock],
     ret |-> r.elapse_clock % U16,
     exec |-> r.cpu, mid |-> r.cpu]

\* lines 134-149
step_after_exec(r) ==
    IF r.cpu.mmu.panicked
    THEN [cpu |-> r.cpu, ret |-> 0, exec |-> r.cpu, mid |-> r.cpu]
    ELSE step_finish(r, step_update(r.cpu, r.elapse_clock))

\* the whole call, with the history fields reset at entry
step(c, opcode, n1, n2) ==
    step_after_exec(
        step_exec([c EXCEPT !.int_log = <<>>, !.mmu.update_log = <<>>,
                            !.mmu.raised_log = <<>>],
                  opcode, n1, n2))

(***************************************************************************)
(* The machine driven by the host loop (src/src/main.rs): step() calls and *)
(* key events.  The ROM is an input: each step draws the opcode at pc and  *)
(* the two bytes after it.  The machine starts after a set-up routine has  *)
(* written IE, IF, the timer registers, STAT and SP and has run the PPU to *)
(* a chosen point of the frame; the constructor's values are among the     *)
(* choices.                                                                *)
(***************************************************************************)
MaxSteps == 3

IeInputs == {0, 1, 31}
IfInputs == {0, 8, 10}
SpInputs == {0, 57344}

\* off (the constructor's), or TAC = 5 with TIMA one tick from overflow
TimerInputs ==
    {Timer_new,
     [Timer_new EXCEPT !.tac = 5, !.tima = 255, !.tma = 255, !.counter = 12]}

\* the constructor's, or the last 4 cycles of line 143's HBlank with the
\* mode-1 STAT interrupt enabled
PpuInputs ==
    {Ppu_new,
     [Ppu_new EXCEPT !.ly = 143, !.stat = 16, !.counter = 200]}

KeyInputs == {1}

\* operand bytes per opcode; opcodes without operands do not read them
Operands(opcode) ==
    CASE opcode = OpLdA -> {<<128, 0>>}
      [] opcode = OpLdhNA -> {<<4, 0>>, <<64, 0>>}
      [] opcode = OpCall -> {<<80, 1>>}
      [] OTHER -> {<<0, 0>>}

Opcodes == {OpNop, OpHalt, OpDi, OpEi, OpLdA, OpLdhNA, OpCall}

NoStep ==
    [kind |-> "init", opcode |-> 0, n1 |-> 0, ret |-> 0,
     pre |-> Cpu_new, exec |-> Cpu_new, mid |-> Cpu_new]

InitCpu ==
    \E ime \in BOOLEAN, ie \in IeInputs, if \in IfInputs, sp \in SpInputs,
       t \in TimerInputs, p \in PpuInputs :
        cpu = [Cpu_new EXCEPT !.ime = ime, !.sp = sp,
                              !.mmu.interrupt_enable = ie,
                              !.mmu.interrupt_flag = if,
                              !.mmu.timer = t, !.mmu.ppu = p]

Init ==
    /\ InitCpu
    /\ last = NoStep
    /\ steps = 0

Running == ~cpu.mmu.panicked

Step ==
    /\ Running
    /\ steps < MaxSteps
    /\ cpu.pc \in 0..32765
    /\ \E opcode \in Opcodes :
         \E n \in Operands(opcode) :
            \E s \in {step(cpu, opcode, n[1], n[2])} :
                /\ cpu' = s.cpu
                /\ last' = [kind |-> "step", opcode |-> opcode, n1 |-> n[1],
                            ret |-> s.ret,
                            pre |-> cpu, exec |-> s.exec, mid |-> s.mid]
    /\ steps' = steps + 1

KeyDown ==
    /\ Running
    /\ \E mask \in KeyInputs :
         cpu' = [cpu EXCEPT !.mmu.joypad = keydown(@, mask)]
    /\ last' = [last EXCEPT !.kind = "key"]
    /\ UNCHANGED steps

Next == Step \/ KeyDown

Spec == Init /\ [][Next]_vars

(***************************************************************************)
(* Properties of step().  `last` holds the machine before the call (pre),  *)
(* after the instruction or halt tick (exec) and at the interrupt check    *)
(* (mid); cpu is the machine the call leaves.                              *)
(***************************************************************************)
IfBits(c) == {b \in 0..4 : Bit(c.mmu.interrupt_flag, b) = 1}

\* the bits 0..4 of IF & IE
PendingBits(c) ==
    {b \in 0..4 :
        Bit(BitAnd(c.mmu.interrupt_flag, c.mmu.interrupt_enable), b) = 1}

Lowest(S) == CHOOSE b \in S : \A x \in S : b <= x

Serviced == {cpu.int_log[i] : i \in DOMAIN cpu.int_log}

Stepped == last.kind = "step"

\* work RAM with its echo, high RAM and the IE register: the addresses
\* whose reads return the byte last written
Ram == (49152..65023) \cup (65408..65535)

\* the last call was a step() that reached its interrupt check with IME set
CheckedWithIme == Stepped /\ last.mid.ime

\* C1 (interrupt priority): after a step that reaches the interrupt check
\* with IME set and two or more of bits 0..4 of IF & IE set, PC is the
\* vector of the lowest-numbered of those bits.
C1_LowestBitVector ==
    (CheckedWithIme /\ Cardinality(PendingBits(last.mid)) >= 2)
        => cpu.pc = Vector(Lowest(PendingBits(last.mid)))

\* C2 (one interrupt per step): a step that reaches the check with IME set
\* and several bits of IF & IE set clears exactly one IF bit, lowers SP by
\* exactly 2 and leaves every other pending IF bit set.
C2_OneInterruptPerStep ==
    (CheckedWithIme /\ Cardinality(PendingBits(last.mid)) >= 2)
        => /\ Cardinality(IfBits(last.mid) \ IfBits(cpu)) = 1
           /\ cpu.sp = wrapping_sub16(last.mid.sp, 2)
           /\ Cardinality(PendingBits(last.mid) \ IfBits(cpu)) = 1

\* C3 (dispatch protocol): a step that reaches the check with IME set and
\* exactly one bit b of IF & IE set ends with IME and halt clear, IF bit b
\* clear and every other IF bit as it was, the pre-dispatch PC stored low
\* byte first at SP - 2, SP lowered by 2 and PC at the vector of b; a step
\* that reaches the check with IME clear clears no IF bit and leaves PC and
\* SP as the instruction set them.
C3_DispatchProtocol ==
    /\ (CheckedWithIme /\ Cardinality(PendingBits(last.mid)) = 1)
        => /\ ~cpu.ime
           /\ ~cpu.halt
           /\ IfBits(last.mid) \ IfBits(cpu) = PendingBits(last.mid)
           /\ cpu.sp = wrapping_sub16(last.mid.sp, 2)
           /\ {cpu.sp, wrapping_add16(cpu.sp, 1)} \subseteq Ram
                => read_word(cpu, cpu.sp) = last.mid.pc
           /\ cpu.pc = Vector(Lowest(PendingBits(last.mid)))
    /\ (Stepped /\ ~last.mid.ime)
        => /\ IfBits(last.mid) \subseteq IfBits(cpu)
           /\ cpu.pc = last.exec.pc
           /\ cpu.sp = last.exec.sp

\* C4 (EI is delayed): a step that executes EI with IME clear and IF & IE
\* non-zero dispatches nothing: PC is the address after EI and SP is
\* unchanged.
C4_EiTakesEffectNextStep ==
    (Stepped /\ last.opcode = OpEi /\ ~last.pre.halt /\ ~last.pre.ime
        /\ PendingBits(last.pre) # {})
        => /\ cpu.int_log = <<>>
           /\ cpu.pc = wrapping_add16(last.pre.pc, 1)
           /\ cpu.sp = last.pre.sp

\* C5 (cycle balance): every step calls mmu.update exactly once, with the
\* amount it returns, so the PPU and the timer advance by the returned
\* cycles; without a write to DIV the timer's counter moves by that amount
\* modulo 2^16.
C5_CycleBalance ==
    Stepped
        => /\ cpu.mmu.update_log = <<last.ret>>
           /\ ~(last.opcode = OpLdhNA /\ last.n1 = 4)
                => cpu.mmu.timer.counter
                    = wrapping_add16(last.pre.mmu.timer.counter, last.ret)

\* the IRQ lines that the step's own update (the first of the step) found
\* high at its latch
RaisedInStep == cpu.mmu.raised_log[1]

\* C6 (ordering within a step): the lines raised by the PPU or the timer
\* during the step's update, and a joypad irq set before the step, are in IF
\* and lowered when the interrupt check is made; each of them whose IE bit
\* is set is dispatched in that same step when the check finds IME set.
C6_UpdateLatchCheck ==
    Stepped
        => /\ RaisedInStep \subseteq IfBits(last.mid)
           /\ RaisedLines(last.mid.mmu) = {}
           /\ last.pre.mmu.joypad.irq => IntJoypad \in RaisedInStep
           /\ last.mid.ime
                => (RaisedInStep \cap PendingBits(last.mid)) \subseteq Serviced

\* a step whose update raised the timer line, found it enabled with IME
\* set, and dispatched it
C6_Witness ==
    /\ CheckedWithIme
    /\ IntTimer \in RaisedInStep \cap PendingBits(last.mid)
    /\ IntTimer \notin IfBits(last.exec)
    /\ IntTimer \in Serviced

\* C26: Mmu::update ORs irq_vblank into IF bit 0, irq_lcdc into bit 1,
\* irq_timer into bit 2 and the joypad irq into bit 4 and clears each latch:
\* after the update of a step all four latches are false, IF holds the bits
\* it held before the update together with those of the lines found high,
\* and no bit that was set before is cleared.
C26_IrqLatching ==
    Stepped
        => /\ ~is_irq_vblank(last.mid.mmu.ppu)
           /\ ~is_irq_lcdc(last.mid.mmu.ppu)
           /\ ~is_irq_timer(last.mid.mmu.timer)
           /\ ~last.mid.mmu.joypad.irq
           /\ IfBits(last.mid) = IfBits(last.exec) \cup RaisedInStep
           /\ BitAnd(last.mid.mmu.interrupt_flag, last.exec.mmu.interrupt_flag)
                = last.exec.mmu.interrupt_flag

\* an update that found the joypad and the timer lines high while IF held
\* the serial bit
C26_Witness ==
    /\ Stepped
    /\ {IntTimer, IntJoypad} \subseteq RaisedInStep
    /\ IntSerial \in IfBits(last.exec)
    /\ IntJoypad \notin IfBits(last.exec)

\* C8 (HALT sets halt): after a step that executes HALT (0x76) and
\* dispatches no interrupt, halt is set, whatever IME was.
C8_HaltSetsHalt ==
    (Stepped /\ last.opcode = OpHalt /\ ~last.pre.halt /\ cpu.int_log = <<>>)
        => cpu.halt

\* the registers A..L
Registers(c) == <<c.a, c.f, c.b, c.c, c.d, c.e, c.h, c.l>>

\* C9 (halted steps tick): a step begun with halt set returns 4, advances
\* the PPU and the timer by 4 cycles, and changes neither PC nor the
\* registers unless it dispatches an interrupt.
C9_HaltedStepTicks ==
    (Stepped /\ last.pre.halt)
        => /\ last.ret = 4
           /\ cpu.mmu.update_log = <<4>>
           /\ cpu.int_log = <<>>
                => /\ cpu.pc = last.pre.pc
                   /\ Registers(cpu) = Registers(last.pre)

(***************************************************************************)
(* The PPU followed over whole frames: only Mmu::update is called, with    *)
(* the amounts step() passes to it (an instruction's 4 to 24 cycles, or    *)
(* the 20 of a dispatch), and nothing writes LCDC.  Here `steps` counts    *)
(* the raisings of irq_vblank and `last` measures the cycles between them: *)
(* since = cycles passed to update() since the latest raising, gap = the   *)
(* cycles between the latest two, over = ppu.counter right after the       *)
(* latest raising, prev_over = the same for the one before.  The logs of   *)
(* the MMU cover one call and are emptied after it.                        *)
(***************************************************************************)
MaxVBlanks == 2
FrameCycles == 70224

UpdateAmounts == {4, 8, 12, 16, 20, 24}

InitFrame ==
    /\ \E p \in PpuInputs : cpu = [Cpu_new EXCEPT !.mmu.ppu = p]
    /\ last = [kind |-> "frame", since |-> 0, gap |-> 0, over |-> 0, prev_over |-> 0]
    /\ steps = 0

\* what an update that left the MMU m after `clock` cycles adds to `last`
FrameRecord(m, clock) ==
    IF IntVBlank \in m.raised_log[1]
    THEN [kind |-> "frame", since |-> 0, gap |-> last.since + clock,
          over |-> m.ppu.counter, prev_over |-> last.over]
    ELSE [last EXCEPT !.since = @ + clock]

Update ==
    /\ steps < MaxVBlanks
    /\ \E clock \in UpdateAmounts :
         \E m \in {Mmu_update(cpu.mmu, clock)} :
            /\ cpu' = [cpu EXCEPT !.mmu = [m EXCEPT !.update_log = <<>>,
                                                   !.raised_log = <<>>]]
            /\ last' = FrameRecord(m, clock)
            /\ steps' = steps + (IF IntVBlank \in m.raised_log[1] THEN 1 ELSE 0)

SpecFrame == InitFrame /\ [][Update]_vars

\* two raisings of irq_vblank have been seen; last.gap is the cycle count
\* between them
TwoRaisings == last.kind = "frame" /\ steps >= 2

\* C7 (frame cadence): exactly 70,224 cycles are passed to update() between
\* two successive raisings of irq_vblank.
C7_FrameCadenceExact == TwoRaisings => last.gap = FrameCycles

\* the PPU's place in the frame, in cycles from the start of VBlank (ly =
\* 144, counter = 0): whole lines of 456 cycles, then 80 of OAM search and
\* 172 of drawing before HBlank
FramePos(p) ==
    456 * (IF p.ly >= 144 THEN p.ly - 144 ELSE p.ly + 10)
    + (CASE get_mode_flag(p) = SearchingOAM -> 0
         [] get_mode_flag(p) = Drawing -> 80
         [] get_mode_flag(p) = HBlank -> 252
         [] get_mode_flag(p) = VBlank -> 0)
    + p.counter

\* C7 as amended: the PPU keeps the cycles exactly (its place in the frame
\* is the cycles passed to update() since the latest raising plus that
\* raising's overshoot), so the cycles between two successive raisings are
\* 70,224 plus the overshoot of the second minus that of the first, each
\* overshoot being the 0 to 20 cycles by which the raising update ran past
\* the start of VBlank.
C7_FrameCadenceCarried ==
    /\ (last.kind = "frame" /\ steps >= 1)
        => /\ FramePos(cpu.mmu.ppu) = last.since + last.over
           /\ last.over \in 0..20
    /\ TwoRaisings
        => /\ last.gap = FrameCycles + last.over - last.prev_over
           /\ last.prev_over \in 0..20

\* two raisings with different overshoots: the gap is not 70,224
C7_Witness ==
    TwoRaisings /\ last.since = 0 /\ last.over # last.prev_over

\* the cycles a mode lasts
ModeCycles(mode) ==
    CASE mode = SearchingOAM -> 80
      [] mode = Drawing -> 172
      [] mode = HBlank -> 204
      [] mode = VBlank -> 456

\* the mode and line changes the mode machine allows from PPU p to PPU q
ModeChange(p, q) ==
    \/ get_mode_flag(q) = get_mode_flag(p) /\ q.ly = p.ly
    \/ get_mode_flag(p) = SearchingOAM /\ get_mode_flag(q) = Drawing /\ q.ly = p.ly
    \/ get_mode_flag(p) = Drawing /\ get_mode_flag(q) = HBlank /\ q.ly = p.ly
    \/ /\ get_mode_flag(p) = HBlank
       /\ q.ly = p.ly + 1
       /\ get_mode_flag(q) = (IF q.ly = 144 THEN VBlank ELSE SearchingOAM)
       /\ q.ly <= 144
    \/ /\ get_mode_flag(p) = VBlank
       /\ get_mode_flag(q) = VBlank
       /\ q.ly = p.ly + 1
       /\ q.ly <= 153
    \/ /\ get_mode_flag(p) = VBlank
       /\ get_mode_flag(q) = SearchingOAM
       /\ p.ly = 153
       /\ q.ly = 0

\* one update of the mode machine: the change is an allowed one, it is made
\* in the update that completes the mode's cycles (the counter left is
\* below the new mode's length), and the place in the frame advances by
\* the cycles of the update
ModeMachineStep ==
    /\ ModeChange(cpu.mmu.ppu, cpu'.mmu.ppu)
    /\ cpu'.mmu.ppu.counter < ModeCycles(get_mode_flag(cpu'.mmu.ppu))
    /\ (FramePos(cpu'.mmu.ppu) - FramePos(cpu.mmu.ppu) + FrameCycles) % FrameCycles
          \in UpdateAmounts

\* C30: with the LCD enabled and no LCDC write, the only mode transitions
\* are 2->3 once 80 cycles of the line have passed, 3->0 after 172 more,
\* 0->2 with LY+1 after 204 more when the new LY is below 144, 0->1 when
\* the new LY is 144, and 1->2 with LY reset to 0 after ten lines of 456
\* cycles; a visible scanline takes 456 cycles and its modes come in the
\* order 2, 3, 0, for the update amounts step() produces.
C30_ModeMachine == [][ModeMachineStep]_vars

\* the machine has gone through the visible lines, VBlank and its ten
\* lines, and is back in mode 2 on line 0
C30_Witness ==
    /\ last.kind = "frame"
    /\ steps >= 1
    /\ last.since >= 4560
    /\ cpu.mmu.ppu.ly = 0
    /\ get_mode_flag(cpu.mmu.ppu) = SearchingOAM

(***************************************************************************)
(* The halted CPU under the host loop, which calls step() again and again  *)
(* (src/src/main.rs): the machine is followed from the step that executed  *)
(* HALT until halt is cleared.  The LCD is on; IE enables VBlank alone or  *)
(* VBlank and the timer.  Here `steps` counts the steps begun halted.      *)
(* The loop calls step() unconditionally, which is the fairness stated.    *)
(***************************************************************************)
\* the timer running at 16 cycles per tick, 4 cycles before a tick and 3
\* ticks before TIMA overflows
HaltTimer ==
    [Timer_new EXCEPT !.tac = 5, !.tima = 253, !.tma = 0, !.counter = 12]

\* the PPU at the start of VBlank, a whole frame before the next raising,
\* and 104 cycles before the end of line 143
VBlankStart == [Ppu_new EXCEPT !.ly = 144, !.stat = 1, !.counter = 0]
LateLine == [Ppu_new EXCEPT !.ly = 143, !.stat = 0, !.counter = 100]

\* IE, timer and PPU of the machines that execute HALT
HaltInputs ==
    {<<1, Timer_new, VBlankStart>>, <<5, HaltTimer, VBlankStart>>}
    \cup ({1, 5} \X {Timer_new, HaltTimer} \X {LateLine})

\* those machines: IME set, nothing pending
BeforeHalt ==
    {[Cpu_new EXCEPT !.ime = TRUE, !.sp = 57344,
                     !.mmu.interrupt_enable = x[1],
                     !.mmu.timer = x[2], !.mmu.ppu = x[3]] : x \in HaltInputs}

InitHalt ==
    /\ \E c \in BeforeHalt :
         \E s \in {step(c, OpHalt, 0, 0)} :
            /\ cpu = s.cpu
            /\ last = [kind |-> "step", opcode |-> OpHalt, n1 |-> 0, ret |-> s.ret,
                       pre |-> c, exec |-> s.exec, mid |-> s.mid]
    /\ steps = 0

\* a step() call made while halted; the opcode it reads at pc is not executed
HaltedStep ==
    /\ Running
    /\ cpu.halt
    /\ \E opcode \in {OpNop} :
         \E s \in {step(cpu, opcode, 0, 0)} :
            /\ cpu' = s.cpu
            /\ last' = [kind |-> "step", opcode |-> opcode, n1 |-> 0, ret |-> s.ret,
                        pre |-> cpu, exec |-> s.exec, mid |-> s.mid]
    /\ steps' = steps + 1

SpecHalt == InitHalt /\ [][HaltedStep]_vars /\ WF_vars(HaltedStep)

\* halted with the LCD on and VBlank enabled in IE
HaltedAwaitingVBlank ==
    /\ cpu.halt
    /\ is_lcd_and_ppu_enable(cpu.mmu.ppu)
    /\ Bit(cpu.mmu.interrupt_enable, IntVBlank) = 1

\* a step begun halted whose check finds IF & IE non-zero ends with halt
\* clear
WakesWhenPending ==
    (Stepped /\ last.pre.halt /\ PendingBits(last.mid) # {}) => ~cpu.halt

\* the halted CPU has not been halted for more than a frame of cycles and
\* its next step can be taken (Running and halt are the whole guard of
\* HaltedStep); under the loop's fairness the steps go on, so the bound is
\* reached unless halt is cleared first
HaltProgress ==
    HaltedAwaitingVBlank => (steps * 4 <= FrameCycles /\ Running)

\* the last step began halted, with the LCD on and VBlank enabled, and
\* cleared halt
WokenFromHalt ==
    /\ Stepped
    /\ last.pre.halt
    /\ is_lcd_and_ppu_enable(last.pre.mmu.ppu)
    /\ Bit(last.pre.mmu.interrupt_enable, IntVBlank) = 1
    /\ ~cpu.halt

MaxBusOps == 2

\* ROM only, or MBC3 with 32 KiB of RAM
BusCartridges == {RomOnly_new(0), MBC3_new(1, 3)}

\* end of mode 2, end of mode 3, end of line 0's HBlank, end of VBlank
BusPpus ==
    {[Ppu_new EXCEPT !.stat = m[1], !.ly = m[2], !.counter = m[3],
                     !.vram = MemSet(EmptyMem, 0, 90),
                     !.oam = MemSet(EmptyMem, 0, 91)] :
        m \in {<<SearchingOAM, 0, 76>>, <<Drawing, 0, 168>>,
               <<HBlank, 0, 200>>, <<VBlank, 153, 452>>}}

BusTimers ==
    {Timer_new,
     [Timer_new EXCEPT !.tac = 5, !.tima = 254, !.tma = 128, !.counter = 43980]}

\* the (address, value) pairs written: at least one per arm of write_byte
BusWrites ==
    {<<0, 10>>, <<16384, 4>>, <<32768, 10>>, <<40960, 51>>,
     <<49152, 10>>, <<53248, 11>>, <<57344, 13>>, <<61440, 12>>,
     <<65024, 14>>, <<65184, 1>>, <<65280, 16>>, <<65281, 1>>, <<65283, 1>>,
     <<65284, 7>>, <<65285, 9>>, <<65295, 4>>, <<65345, 64>>,
     <<65350, 160>>, <<65350, 192>>, <<65350, 242>>,
     <<65351, 228>>, <<65359, 1>>, <<65360, 1>>, <<65361, 1>>,
     <<65384, 255>>, <<65385, 9>>, <<65388, 0>>,
     <<65392, 0>>, <<65392, 2>>, <<65392, 8>>,
     <<65407, 1>>, <<65408, 5>>, <<65535, 1>>}

NoBusOp == [kind |-> "init", addr |-> 0, value |-> 0, pre |-> Mmu_new]

InitBus ==
    /\ \E c \in BusCartridges, p \in BusPpus, t \in BusTimers :
         cpu = [Cpu_new EXCEPT !.mmu.cartridge = c, !.mmu.ppu = p, !.mmu.timer = t]
    /\ last = NoBusOp
    /\ steps = 0

BusWrite ==
    /\ Running
    /\ steps < MaxBusOps
    /\ \E w \in BusWrites :
         /\ cpu' = [cpu EXCEPT !.mmu = Mmu_write_byte(@, w[1], w[2])]
         /\ last' = [kind |-> "write", addr |-> w[1], value |-> w[2],
                     pre |-> cpu.mmu]
    /\ steps' = steps + 1

BusUpdate ==
    /\ Running
    /\ steps < MaxBusOps
    /\ cpu' = [cpu EXCEPT !.mmu = [Mmu_update(@, 4) EXCEPT !.update_log = <<>>,
                                                           !.raised_log = <<>>]]
    /\ last' = [kind |-> "update", addr |-> 0, value |-> 4, pre |-> cpu.mmu]
    /\ steps' = steps + 1

NextBus == BusWrite \/ BusUpdate

SpecBus == InitBus /\ [][NextBus]_vars

Wrote == last.kind = "write"

(***************************************************************************)
(* Properties of the memory bus.                                           *)
(***************************************************************************)
\* one address or more of every arm of read_byte
BusReads ==
    {0, 16384, 32768, 40960, 49152, 53248, 57344, 61440, 65024, 65184,
     65280, 65281, 65283, 65284, 65295, 65344, 65350, 65351, 65359, 65361,
     65384, 65388, 65392, 65407, 65408, 65535}

\* C11 (memory access is total): no write_byte call has aborted and no
\* read_byte call would abort, whatever the address, the cartridge and the
\* state of the PPU and of the WRAM bank.
C11_AccessTotal ==
    /\ Running
    /\ \A addr \in BusReads : ~Mmu_read_panics(cpu.mmu, addr)

\* the I/O addresses of the memory map: joypad, serial, timer, IF, the LCD
\* registers 0xFF40-0xFF4B and the WRAM bank select
ListedIo ==
    {65280, 65281, 65282, 65295, 65392} \cup (65284..65287) \cup (65344..65355)

UnlistedIo == (65280..65407) \ ListedIo

\* C12 (unlisted I/O is open bus): every address of 0xFF00-0xFF7F outside
\* the memory map reads as 0xFF, and a write to one leaves the whole state
\* as it was.
C12_UnlistedIoOpenBus ==
    /\ \A addr \in UnlistedIo : Mmu_read_byte(cpu.mmu, addr) = 255
    /\ (Wrote /\ last.addr \in UnlistedIo) => cpu.mmu = last.pre

VramProbe == {32768, 32769, 40959}
OamProbe == {65024, 65025, 65183}

\* C13 (OAM/VRAM gating): in mode 3 VRAM and OAM read as 0xFF, in mode 2
\* OAM reads as 0xFF, in modes 0 and 1 both return the stored byte; a byte
\* just written to either in mode 0 or 1 is the byte read back.
C13_VramOamGating ==
    /\ \A a \in VramProbe, o \in OamProbe :
        /\ get_mode_flag(cpu.mmu.ppu) = Drawing
            => Mmu_read_byte(cpu.mmu, a) = 255 /\ Mmu_read_byte(cpu.mmu, o) = 255
        /\ get_mode_flag(cpu.mmu.ppu) = SearchingOAM
            => Mmu_read_byte(cpu.mmu, o) = 255
        /\ get_mode_flag(cpu.mmu.ppu) \in {HBlank, VBlank}
            => /\ Mmu_read_byte(cpu.mmu, a) = MemGet(cpu.mmu.ppu.vram, a - 32768)
               /\ Mmu_read_byte(cpu.mmu, o) = MemGet(cpu.mmu.ppu.oam, o - 65024)
    /\ (Wrote /\ last.addr \in {32768, 65024}
              /\ get_mode_flag(cpu.mmu.ppu) \in {HBlank, VBlank})
        => Mmu_read_byte(cpu.mmu, last.addr) = last.value

\* mode 3 entered with a byte in VRAM that was written during mode 2, and
\* the byte hidden
C13_Witness ==
    /\ last.kind = "update"
    /\ get_mode_flag(cpu.mmu.ppu) = Drawing
    /\ MemGet(cpu.mmu.ppu.vram, 0) = 10
    /\ MemGet(cpu.mmu.ppu.oam, 0) = 91
    /\ Mmu_read_byte(cpu.mmu, 32768) = 255
    /\ Mmu_read_byte(cpu.mmu, 65024) = 255

\* C14 (OAM DMA round trip): after a write of v <= 0xF1 to 0xFF46, in any
\* PPU mode, the 160 bytes read at 0xFE00.. equal the bytes read at
\* (v << 8).., and the OAM bytes stored equal the source bytes.
C14_DmaRoundTrip ==
    (Wrote /\ last.addr = 65350 /\ last.value <= 241 /\ Running)
        => \A i \in 0..159 :
            /\ Mmu_read_byte(cpu.mmu, 65024 + i)
                = Mmu_read_byte(cpu.mmu, last.value * U8 + i)
            /\ MemGet(cpu.mmu.ppu.oam, i)
                = Mmu_read_byte(last.pre, last.value * U8 + i)

EchoProbe == {57344, 57345, 61440, 65023}

\* C15 (echo RAM): a byte written at a in 0xE000-0xFDFF is read at
\* a - 0x2000, a byte written at a - 0x2000 is read at a, and the two
\* addresses read alike under every WRAM bank selection.
C15_EchoRam ==
    /\ (Wrote /\ Running /\ last.addr \in 57344..65023)
        => Mmu_read_byte(cpu.mmu, last.addr - 8192) = last.value
    /\ (Wrote /\ Running /\ last.addr \in 49152..56831)
        => Mmu_read_byte(cpu.mmu, last.addr + 8192) = last.value
    /\ \A a \in EchoProbe :
        Mmu_read_byte(cpu.mmu, a) = Mmu_read_byte(cpu.mmu, a - 8192)

\* a byte written through the echo of the banked half with bank 2 selected
C15_Witness ==
    /\ Wrote /\ last.addr = 61440 /\ last.value = 12
    /\ cpu.mmu.wram.bank_index = 2
    /\ Mmu_read_byte(cpu.mmu, 53248) = 12
    /\ Mmu_read_byte(last.pre, 53248) = 0

\* C17 (DIV reset): after a write of any value to 0xFF04 the 16-bit counter
\* is zero and 0xFF04 reads 0; TIMA, TMA and TAC are as before the write.
C17_DivReset ==
    (Wrote /\ last.addr = 65284)
        => /\ cpu.mmu.timer.counter = 0
           /\ Mmu_read_byte(cpu.mmu, 65284) = 0
           /\ cpu.mmu.timer.tima = last.pre.timer.tima
           /\ cpu.mmu.timer.tma = last.pre.timer.tma
           /\ cpu.mmu.timer.tac = last.pre.timer.tac

\* DIV written with a non-zero value while it read non-zero, the timer on
C17_Witness ==
    /\ Wrote /\ last.addr = 65284 /\ last.value # 0
    /\ Mmu_read_byte(last.pre, 65284) # 0
    /\ last.pre.timer.tac = 5
    /\ cpu.mmu.timer.counter = 0

(***************************************************************************)
(* The timer scenario: TAC = 0x05 and TMA = 0x80 are set, the internal     *)
(* counter is at some phase (a multiple of 4, as every cycle count is),    *)
(* TIMA is written with 0xFE, and Mmu::update is called with the cycle     *)
(* counts of instructions until RunCycles have run.  Here `steps` counts   *)
(* the cycles run, and last.merged tells whether one update call began     *)
(* with TIMA = 0xFE and overflowed it, that is, held the first two ticks.  *)
(***************************************************************************)
RunCycles == 48

TimerPhases == {4 * k : k \in 0..15} \cup {65520 + 4 * k : k \in 0..3}

InitTimer ==
    /\ \E phase \in TimerPhases :
         cpu = [Cpu_new EXCEPT !.mmu =
                    Mmu_write_byte(
                        [Mmu_new EXCEPT !.timer =
                            [Timer_new EXCEPT !.tac = 5, !.tma = 128,
                                              !.counter = phase]],
                        65285, 254)]
    /\ last = [kind |-> "timer", merged |-> FALSE]
    /\ steps = 0

TimerRun ==
    /\ Running
    /\ \E clock \in UpdateAmounts :
         /\ steps + clock <= RunCycles
         /\ \E m \in {Mmu_update(cpu.mmu, clock)} :
              /\ cpu' = [cpu EXCEPT !.mmu = [m EXCEPT !.update_log = <<>>,
                                                      !.raised_log = <<>>]]
              /\ last' = [kind |-> "timer",
                          merged |-> \/ last.merged
                                     \/ /\ cpu.mmu.timer.tima = 254
                                        /\ Bit(cpu.mmu.interrupt_flag, IntTimer) = 0
                                        /\ Bit(m.interrupt_flag, IntTimer) = 1]
         /\ steps' = steps + clock

SpecTimer == InitTimer /\ [][TimerRun]_vars

\* C16 (timer overflow): TAC = 0x05, TMA = 0x80, TIMA written 0xFE; after
\* 48 cycles, however split into update calls, TIMA is 0x80 and IF bit 2
\* is set.
C16_TimerOverflowExact ==
    steps = 48
        => /\ cpu.mmu.timer.tima = 128
           /\ Bit(cpu.mmu.interrupt_flag, IntTimer) = 1

\* C16 as amended: after the 48 cycles IF bit 2 is set and TIMA is 0x81,
\* the reload of 0x80 at the second tick plus the third tick; it is 0x82
\* when one update call held the first two ticks.
C16_TimerOverflowCarried ==
    steps = 48
        => /\ Bit(cpu.mmu.interrupt_flag, IntTimer) = 1
           /\ cpu.mmu.timer.tima = IF last.merged THEN 130 ELSE 129

\* the 48 cycles run with the three ticks in three update calls
C16_Witness ==
    /\ steps = 48
    /\ ~last.merged
    /\ cpu.mmu.timer.tima = 129
    /\ Bit(cpu.mmu.interrupt_flag, IntTimer) = 1
    /\ cpu.mmu.timer.tma = 128 /\ cpu.mmu.timer.tac = 5

(***************************************************************************)
(* The cartridge: writes from the CPU to the latch regions and to the      *)
(* external RAM region, through Mmu::write_byte.  The cartridges are MBC1  *)
(* of every size from 2 to 128 banks and one of each other variant, each   *)
(* with zeroed RAM or with a byte in it: a save file for MBC1, MBC3 and    *)
(* MBC5, and for MBC2 a byte stored while RAM was enabled.  last.low,      *)
(* last.upper and last.mode are the bytes last written to 0x2000-0x3FFF,   *)
(* 0x4000-0x5FFF and 0x6000-0x7FFF (0 before any write, as MBC1::new       *)
(* leaves the latches).                                                    *)
(***************************************************************************)
MaxCartOps == 3

FreshCartridges ==
    {MBC1_new(rom_code, 3) : rom_code \in 0..6}
    \cup {MBC2_new(1), MBC3_new(2, 3), MBC5_new(3, 3)}

CartInputs ==
    {RomOnly_new(0)} \cup FreshCartridges
    \cup {[c EXCEPT !.ram = MemSet(EmptyMem, 0, 10)] : c \in FreshCartridges}

CartWrites ==
    {<<0, 10>>, <<0, 0>>, <<12288, 1>>, <<40960, 51>>, <<256, 3>>, <<8192, 10>>}
    \cup {<<8448, v>> : v \in {0, 2, 4, 8, 16, 33, 96}}
    \cup {<<16384, v>> : v \in 0..3}
    \cup {<<24576, v>> : v \in 0..1}

InitCart ==
    /\ \E c \in CartInputs : cpu = [Cpu_new EXCEPT !.mmu.cartridge = c]
    /\ last = [kind |-> "init", addr |-> 0, value |-> 0,
               pre |-> RomOnly_new(0), low |-> 0, upper |-> 0, mode |-> 0]
    /\ steps = 0

CartWrite ==
    /\ Running
    /\ steps < MaxCartOps
    /\ \E w \in CartWrites :
         /\ cpu' = [cpu EXCEPT !.mmu = Mmu_write_byte(@, w[1], w[2])]
         /\ last' = [kind |-> "cart", addr |-> w[1], value |-> w[2],
                     pre |-> cpu.mmu.cartridge,
                     low |-> IF w[1] \in 8192..16383 THEN w[2] ELSE last.low,
                     upper |-> IF w[1] \in 16384..24575 THEN w[2] ELSE last.upper,
                     mode |-> IF w[1] \in 24576..32767 THEN w[2] ELSE last.mode]
    /\ steps' = steps + 1

SpecCart == InitCart /\ [][CartWrite]_vars

IsMBC1 == cpu.mmu.cartridge.kind = "MBC1"

\* the number of 16 KiB banks in the ROM
NumBanks == cpu.mmu.cartridge.rom_len \div 16384

\* the bank number the bytes written select, before the bump and the mask
SelectedBank ==
    BitOr(IF BitAnd(last.mode, 1) = 0 THEN BitAnd(last.upper, 3) * 32 ELSE 0,
          BitAnd(last.low, 31))

BankProbe == {16384, 16385, 32767}

\* the bytes read at 0x4000-0x7FFF are those of ROM bank `bank`
ReadsBank(bank) ==
    \A a \in BankProbe :
        Mmu_read_byte(cpu.mmu, a) = RomByte(bank * 16384 + (a - 16384))

\* C18 (MBC1 bank wrap): for every MBC1 size from 2 to 128 banks, when the
\* selected bank number equals the number of banks, reads of 0x4000-0x7FFF
\* return the bytes of ROM bank 0.
C18_BankWrapToZero ==
    (IsMBC1 /\ SelectedBank = NumBanks) => ReadsBank(0)

\* C18 as amended: with the selected bank number equal to the number of
\* banks, the reads return bank 0 for sizes of 2 to 16 banks, and bank 1
\* for 32 and 64 banks, whose numbers 0x20 and 0x40 are bumped by 1 before
\* the mask; no latch setting selects 128.
C18_BankWrapAfterBump ==
    /\ (IsMBC1 /\ SelectedBank = NumBanks)
        => /\ NumBanks \in {2, 4, 8, 16, 32, 64}
           /\ NumBanks <= 16 => ReadsBank(0)
           /\ NumBanks >= 32 => ReadsBank(1)
    /\ IsMBC1 => SelectedBank < 128

\* bank 16 selected on a 16-bank MBC1, bank 0 read
C18_Witness ==
    /\ IsMBC1 /\ last.kind = "cart"
    /\ NumBanks = 16 /\ SelectedBank = 16
    /\ cpu.mmu.cartridge.rom_bank_no = 16
    /\ Mmu_read_byte(cpu.mmu, 16385) = RomByte(1)

\* the bank C19 gives for the bytes written: upper bits only in mode 0,
\* 0x00/0x20/0x40/0x60 bumped by 1, masked by num_banks - 1
ExpectedBank ==
    BitAnd(IF SelectedBank \in {0, 32, 64, 96} THEN SelectedBank + 1
           ELSE SelectedBank,
           NumBanks - 1)

\* C19 (MBC1 bank selection): after any writes to the three latch regions
\* the bank read at 0x4000-0x7FFF is ((mode = 0 ? upper << 5 : 0) | low),
\* with 0x00/0x20/0x40/0x60 bumped by 1, masked by num_banks - 1; 0x60
\* written as low gives bank 1 with upper 0 and bank 97 masked with upper 3.
C19_BankSelection ==
    IsMBC1
        => /\ ReadsBank(ExpectedBank)
           /\ (last.low = 96 /\ last.upper = 0) => ReadsBank(1)
           /\ (last.low = 96 /\ last.upper = 3 /\ last.mode = 0)
                => ReadsBank(BitAnd(97, NumBanks - 1))

\* 0x60 written as low and 3 as upper on a 128-bank MBC1: bank 97 read
C19_Witness ==
    /\ IsMBC1 /\ NumBanks = 128
    /\ last.low = 96 /\ last.upper = 3 /\ last.mode = 0
    /\ Mmu_read_byte(cpu.mmu, 16384) = RomByte(97 * 16384)
    /\ Mmu_read_byte(cpu.mmu, 16384) # RomByte(16384)

RamProbe == {40960, 40961, 41471}

\* C20 (disabled RAM is absorbed): for MBC1, MBC2, MBC3 and MBC5, while
\* the RAM-enable latch is off a read of the external RAM region returns
\* 0xFF and a write leaves the RAM buffer as it was.
C20_DisabledRamAbsorbed ==
    /\ (cpu.mmu.cartridge.kind # "RomOnly"
            /\ ~Cartridge_ram_enabled(cpu.mmu.cartridge))
        => \A a \in RamProbe : Mmu_read_byte(cpu.mmu, a) = 255
    /\ (last.kind = "cart" /\ last.addr \in 40960..49151
            /\ ~Cartridge_ram_enabled(last.pre))
        => Cartridge_ram(cpu.mmu.cartridge) = Cartridge_ram(last.pre)

(***************************************************************************)
(* MBC2 register decoding.                                                 *)
(***************************************************************************)
WroteMBC2Register ==
    /\ last.kind = "cart"
    /\ last.pre.kind = "MBC2"
    /\ last.addr \in 0..16383

\* C21: for every write to 0x0000-0x3FFF of an MBC2 cartridge, address bit 8
\* alone decides the effect, in both halves of the region: with bit 8 clear
\* the RAM-enable latch becomes (low nibble of the value = 0x0A) and the ROM
\* bank is kept; with bit 8 set the ROM bank becomes the value's low 4 bits
\* and the RAM-enable latch is kept.
C21_MBC2Bit8Decides ==
    WroteMBC2Register =>
        IF BitAnd(last.addr, 256) = 0
        THEN /\ cpu.mmu.cartridge.ram_enable = (BitAnd(last.value, 15) = 10)
             /\ cpu.mmu.cartridge.rom_bank_no = last.pre.rom_bank_no
        ELSE /\ cpu.mmu.cartridge.rom_bank_no = BitAnd(last.value, 15)
             /\ cpu.mmu.cartridge.ram_enable = last.pre.ram_enable

(***************************************************************************)
(* Instructions on registers, flags and the stack: step() calls that       *)
(* execute PUSH, POP, flag arithmetic, CB-prefixed instructions and the    *)
(* opcodes whose arm of exec panics.  The machine starts after a set-up    *)
(* routine has loaded the registers, the flags and SP; interrupts are      *)
(* disabled throughout.  `last` holds the opcode and the machine before    *)
(* each of the last two calls.                                             *)
(***************************************************************************)
MaxInstrSteps == 2

InvalidOpcodes == {211, 219, 221, 227, 228, 235, 236, 237, 244, 252, 253}

PushOpcodes == {OpPushBC, OpPushDE, OpPushHL, OpPushAF}
PopOpcodes == {OpPopBC, OpPopDE, OpPopHL, OpPopAF}

\* one CB opcode of every handler, over all eight operands
CbOpcodes == {0, 14, 17, 31, 34, 43, 54, 60, 71, 126, 133, 254}

InstrOpcodes ==
    PushOpcodes \cup PopOpcodes \cup InvalidOpcodes
    \cup {OpScf, OpCcf, OpXorA, OpAddD8, OpPrefixCb}

InstrOperands(opcode) ==
    CASE opcode = OpAddD8 -> {127}
      [] opcode = OpPrefixCb -> CbOpcodes
      [] OTHER -> {0}

FlagInputs == {0, 176, 240}
StackInputs == {0, 1, 53248, 65534}

InstrInputs ==
    {set_flags_from_byte(
        [Cpu_new EXCEPT !.a = 156, !.b = 18, !.c = cc, !.d = 52, !.e = 86,
                        !.h = 192, !.l = 0, !.sp = sp], fl) :
        cc \in {90, 255}, sp \in StackInputs, fl \in FlagInputs}

NoInstr ==
    [kind |-> "init", opcode |-> 0, n1 |-> 0, pre |-> Cpu_new, exec |-> Cpu_new,
     prev_opcode |-> 0, prev_pre |-> Cpu_new]

InitInstr ==
    /\ cpu \in InstrInputs
    /\ last = NoInstr
    /\ steps = 0

InstrStep ==
    /\ Running
    /\ steps < MaxInstrSteps
    /\ cpu.pc \in 0..32765
    /\ \E opcode \in InstrOpcodes :
         \E n1 \in InstrOperands(opcode) :
            \E s \in {step(cpu, opcode, n1, 0)} :
                /\ cpu' = s.cpu
                /\ last' = [kind |-> "instr", opcode |-> opcode, n1 |-> n1,
                            pre |-> cpu, exec |-> s.exec,
                            prev_opcode |-> IF last.kind = "instr"
                                            THEN last.opcode ELSE 0,
                            prev_pre |-> last.pre]
    /\ steps' = steps + 1

SpecInstr == InitInstr /\ [][InstrStep]_vars

\* C22: get_byte_from_flags packs Z, N, H and C into bits 7, 6, 5 and 4 and
\* nothing else; a POP AF (set_flags_from_byte of the stack byte v) leaves
\* get_byte_from_flags equal to v & 0xF0; and in every reachable state the
\* low nibble of the F byte is zero, both as stored in f and as packed.
C22_FlagNibblePurity ==
    /\ get_byte_from_flags(cpu) =
          (IF cpu.zero_flag THEN 128 ELSE 0)
          + (IF cpu.subtraction_flag THEN 64 ELSE 0)
          + (IF cpu.half_carry_flag THEN 32 ELSE 0)
          + (IF cpu.carry_flag THEN 16 ELSE 0)
    /\ cpu.f % 16 = 0
    /\ cpu.f = get_byte_from_flags(cpu)
    /\ (last.kind = "instr" /\ last.opcode = OpPopAF /\ Running) =>
          get_byte_from_flags(cpu)
            = BitAnd(Mmu_read_byte(last.pre.mmu, last.pre.sp), 240)

\* a POP AF has loaded a stack byte whose low nibble is not zero
C22_Witness ==
    /\ last.kind = "instr"
    /\ last.opcode = OpPopAF
    /\ Running
    /\ Mmu_read_byte(last.pre.mmu, last.pre.sp) % 16 # 0
    /\ get_byte_from_flags(cpu) # 0


(***************************************************************************)
(* PUSH rr followed by POP rr.                                             *)
(***************************************************************************)
PairOf(opcode) ==
    CASE opcode \in {OpPushBC, OpPopBC} -> "BC"
      [] opcode \in {OpPushDE, OpPopDE} -> "DE"
      [] opcode \in {OpPushHL, OpPopHL} -> "HL"
      [] opcode \in {OpPushAF, OpPopAF} -> "AF"

\* the two calls before this state were PUSH rr and POP rr of the same pair
PushedThenPopped ==
    /\ last.kind = "instr"
    /\ last.prev_opcode \in PushOpcodes
    /\ last.opcode \in PopOpcodes
    /\ PairOf(last.prev_opcode) = PairOf(last.opcode)

WritableStack == (49152..57343) \cup (65408..65535)

\* both bytes the PUSH stored lie in work RAM, high RAM or IE
StackWritable ==
    /\ wrapping_sub16(last.prev_pre.sp, 2) \in WritableStack
    /\ wrapping_sub16(last.prev_pre.sp, 1) \in WritableStack

\* the pair as PUSH and POP see it: for AF, A and the four flags
PairValue(c, pair) ==
    CASE pair = "AF" -> <<c.a, c.zero_flag, c.subtraction_flag,
                          c.half_carry_flag, c.carry_flag>>
      [] pair = "BC" -> <<c.b, c.c>>
      [] pair = "DE" -> <<c.d, c.e>>
      [] pair = "HL" -> <<c.h, c.l>>

\* C23: PUSH rr followed by POP rr (rr = AF, BC, DE, HL) completes, with SP
\* arithmetic modulo 2^16, and leaves the pair (for AF: A, Z, N, H, C) and SP
\* as they were before the PUSH, for every SP (0x0000 included) whose two
\* stack bytes lie in writable memory.
C23_PushPopIdentity ==
    (PushedThenPopped /\ StackWritable) =>
        /\ Running
        /\ ~cpu.overflowed
        /\ cpu.sp = last.prev_pre.sp
        /\ PairValue(cpu, PairOf(last.opcode))
             = PairValue(last.prev_pre, PairOf(last.opcode))


(***************************************************************************)
(* Undefined opcodes.                                                      *)
(***************************************************************************)
\* the machine exec was called on: step() has moved pc past the opcode and
\* the history fields are those of a call that has just begun
HandedToExec ==
    [add_program_count(last.pre, 1)
        EXCEPT !.int_log = <<>>, !.mmu.update_log = <<>>, !.mmu.raised_log = <<>>]

InitNew ==
    /\ cpu = Cpu_new
    /\ last = NoStep
    /\ steps = 0

SpecNew == InitNew /\ [][Next]_vars

\* C25: a newly created CPU has PC = 0x0100, SP = 0xFFFE, registers A, F, B,
\* C, D, E, H and L cleared, IME = false and halt = false.
C25_InitialState ==
    (steps = 0 /\ last.kind = "init") =>
        /\ cpu.pc = 256
        /\ cpu.sp = 65534
        /\ <<cpu.a, cpu.f, cpu.b, cpu.c, cpu.d, cpu.e, cpu.h, cpu.l>>
             = <<0, 0, 0, 0, 0, 0, 0, 0>>
        /\ ~cpu.ime
        /\ ~cpu.halt


(***************************************************************************)
(* The joypad driven by the host's key events (src/src/main.rs lines       *)
(* 116-131; a held key repeats its KeyDown event) between updates of the   *)
(* MMU, which latch and clear irq.  A key is named by its bit of           *)
(* key_state; a clear bit is a pressed key.                                *)
(***************************************************************************)
MaxKeyOps == 4

KeyMasks == {1, 2, 4, 8, 16, 32, 64, 128}

NoKeyOp == [kind |-> "init", mask |-> 0, pre |-> Joypad_new]

InitJoypad ==
    /\ cpu = Cpu_new
    /\ last = NoKeyOp
    /\ steps = 0

JoyKeyDown ==
    /\ steps < MaxKeyOps
    /\ \E mask \in KeyMasks :
         /\ cpu' = [cpu EXCEPT !.mmu.joypad = keydown(@, mask)]
         /\ last' = [kind |-> "keydown", mask |-> mask, pre |-> cpu.mmu.joypad]
    /\ steps' = steps + 1

JoyKeyUp ==
    /\ steps < MaxKeyOps
    /\ \E mask \in KeyMasks :
         /\ cpu' = [cpu EXCEPT !.mmu.joypad = keyup(@, mask)]
         /\ last' = [kind |-> "keyup", mask |-> mask, pre |-> cpu.mmu.joypad]
    /\ steps' = steps + 1

\* the update of a 4-cycle instruction, with the history fields reset as
\* step() does
JoyUpdate ==
    /\ steps < MaxKeyOps
    /\ cpu' = [cpu EXCEPT !.mmu =
                  Mmu_update([@ EXCEPT !.update_log = <<>>, !.raised_log = <<>>], 4)]
    /\ last' = [kind |-> "update", mask |-> 0, pre |-> cpu.mmu.joypad]
    /\ steps' = steps + 1

NextJoypad == JoyKeyDown \/ JoyKeyUp \/ JoyUpdate

SpecJoypad == InitJoypad /\ [][NextJoypad]_vars

\* the key of the last event was pressed before the event
WasPressed == BitAnd(last.pre.key_state, last.mask) = 0

\* C27: the joypad interrupt is edge-triggered: keydown(k) sets irq exactly
\* when key k goes from released to pressed; a keydown for a key that is
\* already pressed leaves irq as it was, and so does any keyup.
C27_JoypadEdgeTriggered ==
    /\ last.kind = "keydown" =>
          cpu.mmu.joypad.irq = (last.pre.irq \/ ~WasPressed)
    /\ last.kind = "keyup" => cpu.mmu.joypad.irq = last.pre.irq


(***************************************************************************)
(* Work RAM banking: writes to 0xFF70 and to 0xC000-0xDFFF through         *)
(* Mmu::write_byte.  `last` keeps what a program that made these writes    *)
(* knows: low[a], the byte it last stored at the bank-0 address a, and     *)
(* high[b][a], the byte it last stored at the banked address a while       *)
(* bank b was selected, index 0 counting as bank 1.                        *)
(***************************************************************************)
MaxWramOps == 4

LowCells == {49152, 53247}
HighCells == {53248, 57343}
WramValues == {7, 9}

NoWramOp ==
    [kind |-> "init", low |-> [a \in LowCells |-> 0],
     high |-> [b \in 1..7 |-> [a \in HighCells |-> 0]]]

InitWram ==
    /\ cpu = Cpu_new
    /\ last = NoWramOp
    /\ steps = 0

SelectedBank1to7 == IF cpu.mmu.wram.bank_index = 0 THEN 1 ELSE cpu.mmu.wram.bank_index

WramSelect ==
    /\ steps < MaxWramOps
    /\ \E index \in 0..7 :
         cpu' = [cpu EXCEPT !.mmu = Mmu_write_byte(@, 65392, index)]
    /\ last' = [last EXCEPT !.kind = "select"]
    /\ steps' = steps + 1

WramWriteLow ==
    /\ steps < MaxWramOps
    /\ \E a \in LowCells, v \in WramValues :
         /\ cpu' = [cpu EXCEPT !.mmu = Mmu_write_byte(@, a, v)]
         /\ last' = [last EXCEPT !.kind = "low", !.low[a] = v]
    /\ steps' = steps + 1

WramWriteHigh ==
    /\ steps < MaxWramOps
    /\ \E a \in HighCells, v \in WramValues :
         /\ cpu' = [cpu EXCEPT !.mmu = Mmu_write_byte(@, a, v)]
         /\ last' = [last EXCEPT !.kind = "high",
                                 !.high[SelectedBank1to7][a] = v]
    /\ steps' = steps + 1

NextWram == WramSelect \/ WramWriteLow \/ WramWriteHigh

SpecWram == InitWram /\ [][NextWram]_vars

\* the byte read at addr once index has been written to 0xFF70
ReadUnderBank(index, addr) ==
    Mmu_read_byte(Mmu_write_byte(cpu.mmu, 65392, index), addr)

\* C28: WRAM bank 0 is fixed: a byte written at 0xC000-0xCFFF is read back
\* unchanged under every bank index 0..7, and no write to 0xD000-0xDFFF under
\* any bank index changes it.
C28_WramBank0Fixed ==
    \A index \in 0..7 : \A a \in LowCells :
        ReadUnderBank(index, a) = last.low[a]

\* bytes stored in bank 0, then a banked write under an index of 2 or more
C28_Witness ==
    /\ last.kind = "high"
    /\ cpu.mmu.wram.bank_index >= 2
    /\ \A a \in LowCells : last.low[a] # 0

\* C29: WRAM banks 1..7 are isolated and index 0 aliases bank 1: a byte
\* written at 0xD000-0xDFFF while bank b is selected is read back whenever b
\* is selected again, whatever was written under the other bank indices
\* since, and selecting index 0 reads and writes the storage of index 1.
C29_WramBanksIsolated ==
    /\ \A b \in 1..7 : \A a \in HighCells :
          ReadUnderBank(b, a) = last.high[b][a]
    /\ \A a \in HighCells : ReadUnderBank(0, a) = last.high[1][a]

\* different bytes stored at the same address under two banks, one of them
\* selected by index 0
C29_Witness ==
    \E b \in 2..7 : \E a \in HighCells :
        /\ last.high[1][a] # 0
        /\ last.high[b][a] # 0
        /\ last.high[b][a] # last.high[1][a]
        /\ ReadUnderBank(1, a) # ReadUnderBank(b, a)

(***************************************************************************)
(* The LCD registers: writes to LCDC, STAT, LY and LYC through             *)
(* Mmu::write_byte, and Mmu::update calls, on a machine whose PPU is the   *)
(* constructor's or stands four cycles before the end of a mode.  `last`   *)
(* holds the call made, the PPU before it and, for an update, the IRQ      *)
(* lines that were high at its latch.                                      *)
(***************************************************************************)
MaxLcdOps == 4

\* the constructor's; the ends of mode 2, mode 3 and HBlank on line 0; the
\* end of HBlank on line 143; the ends of lines 144 and 153 in VBlank
LcdPpus ==
    {[Ppu_new EXCEPT !.stat = m[1], !.ly = m[2], !.counter = m[3]] :
        m \in {<<SearchingOAM, 0, 0>>, <<SearchingOAM, 0, 76>>,
               <<Drawing, 0, 168>>, <<HBlank, 0, 200>>, <<HBlank, 143, 200>>,
               <<VBlank, 144, 452>>, <<VBlank, 153, 452>>}}

\* LCDC off and on; STAT with each enable bit, with none, and with every
\* bit; LY; LYC
LcdWrites ==
    {<<65344, 0>>, <<65344, 128>>,
     <<65345, 0>>, <<65345, 8>>, <<65345, 16>>, <<65345, 32>>, <<65345, 64>>,
     <<65345, 255>>,
     <<65348, 99>>,
     <<65349, 0>>, <<65349, 1>>, <<65349, 144>>}

NoLcdOp ==
    [kind |-> "init", addr |-> 0, value |-> 0, pre |-> Ppu_new, raised |-> {}]

InitLcd ==
    /\ \E p \in LcdPpus : cpu = [Cpu_new EXCEPT !.mmu.ppu = p]
    /\ last = NoLcdOp
    /\ steps = 0

LcdWrite ==
    /\ Running
    /\ steps < MaxLcdOps
    /\ \E w \in LcdWrites :
         /\ cpu' = [cpu EXCEPT !.mmu = Mmu_write_byte(@, w[1], w[2])]
         /\ last' = [kind |-> "write", addr |-> w[1], value |-> w[2],
                     pre |-> cpu.mmu.ppu, raised |-> {}]
    /\ steps' = steps + 1

LcdUpdate ==
    /\ Running
    /\ steps < MaxLcdOps
    /\ \E clock \in UpdateAmounts :
         \E m \in {Mmu_update(cpu.mmu, clock)} :
            /\ cpu' = [cpu EXCEPT !.mmu = [m EXCEPT !.update_log = <<>>,
                                                   !.raised_log = <<>>]]
            /\ last' = [kind |-> "update", addr |-> 0, value |-> clock,
                        pre |-> cpu.mmu.ppu, raised |-> m.raised_log[1]]
    /\ steps' = steps + 1

NextLcd == LcdWrite \/ LcdUpdate

SpecLcd == InitLcd /\ [][NextLcd]_vars

\* the latest call was an update that took the PPU into `mode`
Entered(mode) ==
    /\ last.kind = "update"
    /\ get_mode_flag(last.pre) # mode
    /\ get_mode_flag(cpu.mmu.ppu) = mode

\* C31 (mode-transition interrupts): whenever an update takes the PPU into
\* mode 0, 1 or 2 with that mode's STAT enable bit (3, 4 or 5) set, the
\* irq_lcdc line is high at that update's latch, and every update that
\* takes the PPU into VBlank, LY reaching 144, has irq_vblank high at its
\* latch whatever STAT holds.
C31_ModeInterrupts ==
    /\ \A mode \in {HBlank, VBlank, SearchingOAM} :
          (Entered(mode) /\ Bit(cpu.mmu.ppu.stat, mode + 3) = 1)
             => IntLCDStat \in last.raised
    /\ Entered(VBlank)
          => cpu.mmu.ppu.ly = 144 /\ IntVBlank \in last.raised
    /\ (last.kind = "update" /\ last.pre.ly = 143 /\ cpu.mmu.ppu.ly = 144)
          => Entered(VBlank)

\* mode 2 entered from VBlank with bit 5 set, LY differing from LYC and the
\* line low before the update: the mode interrupt alone raised it
C31_Witness ==
    /\ Entered(SearchingOAM)
    /\ Bit(cpu.mmu.ppu.stat, 5) = 1
    /\ cpu.mmu.ppu.ly # cpu.mmu.ppu.lyc
    /\ ~last.pre.irq_lcdc
    /\ IntLCDStat \in last.raised

\* the latest call drove irq_lcdc from low to high
RaisedLcdc ==
    \/ /\ last.kind = "update"
       /\ ~last.pre.irq_lcdc
       /\ IntLCDStat \in last.raised
    \/ /\ last.kind = "write"
       /\ ~last.pre.irq_lcdc
       /\ cpu.mmu.ppu.irq_lcdc

\* the latest call changed LY or LYC and took STAT bit 2 from 0 to 1
CoincidenceRose ==
    /\ last.kind \in {"update", "write"}
    /\ (last.pre.ly # cpu.mmu.ppu.ly \/ last.pre.lyc # cpu.mmu.ppu.lyc)
    /\ Bit(last.pre.stat, 2) = 0
    /\ Bit(cpu.mmu.ppu.stat, 2) = 1

\* C32 (the LY=LYC interrupt is gated): an LY change or an LYC write raises
\* irq_lcdc for the coincidence exactly when STAT bit 2 goes from 0 to 1
\* with STAT bit 6 set, and with STAT bits 3..6 all clear no call raises
\* irq_lcdc.
C32_LycInterruptGated ==
    /\ (CoincidenceRose /\ Bit(cpu.mmu.ppu.stat, 6) = 1)
          => (cpu.mmu.ppu.irq_lcdc \/ IntLCDStat \in last.raised)
    /\ (RaisedLcdc /\ BitAnd(cpu.mmu.ppu.stat, 120) = 0
                   /\ BitAnd(last.pre.stat, 120) = 0) => FALSE

\* C33 (STAT bit 2 tracks the comparison): in every state bit 2 of the byte
\* read at 0xFF41 is 1 exactly when LY equals LYC.
C33_StatBit2TracksCompare ==
    Bit(Mmu_read_byte(cpu.mmu, 65345), 2) = 1
        <=> cpu.mmu.ppu.ly = cpu.mmu.ppu.lyc

\* C34 (PPU state invariant): LY is in 0..153; with the LCD enabled the STAT
\* mode bits are 1 exactly when LY is in 144..153; a write to 0xFF41 leaves
\* the two mode bits and a write to 0xFF44 leaves LY as they were; and
\* after every update of 24 cycles or fewer the line counter is below the
\* length of the current mode.
C34_PpuStateInvariant ==
    /\ cpu.mmu.ppu.ly \in 0..153
    /\ is_lcd_and_ppu_enable(cpu.mmu.ppu)
          => (get_mode_flag(cpu.mmu.ppu) = VBlank <=> cpu.mmu.ppu.ly \in 144..153)
    /\ (last.kind = "write" /\ last.addr = 65345)
          => get_mode_flag(cpu.mmu.ppu) = get_mode_flag(last.pre)
    /\ (last.kind = "write" /\ last.addr = 65348)
          => cpu.mmu.ppu.ly = last.pre.ly
    /\ (last.kind = "update" /\ last.value <= 24)
          => cpu.mmu.ppu.counter < ModeCycles(get_mode_flag(cpu.mmu.ppu))

\* a STAT write of 0xFF in VBlank, whose mode bits differ from the PPU's
C34_Witness ==
    /\ last.kind = "write"
    /\ last.addr = 65345
    /\ last.value = 255
    /\ get_mode_flag(cpu.mmu.ppu) = VBlank
    /\ cpu.mmu.ppu.ly \in 144..153
    /\ cpu.mmu.ppu.stat = 249

(***************************************************************************)
(* Timer::update in one call and in two: from a timer state and two cycle  *)
(* amounts a and b with a + b <= 255, update(a) and then update(b) are     *)
(* applied to the timer, and last.whole holds what the single call         *)
(* update(a + b) makes of the same timer.  `steps` counts the calls made.  *)
(***************************************************************************)
MaxChunk == 255

ChunkAmounts == {4, 12, 16, 20, 32, 100, 235}

\* every TAC setting that counts, and one that does not; TIMA and TMA far
\* from and next to the overflow; DIV phases around a tick and a wrap
ChunkTimers ==
    {[Timer_new EXCEPT !.tac = tac, !.tima = tima, !.tma = tma,
                       !.counter = counter] :
        tac \in {1, 4, 5, 6, 7}, tima \in {0, 254, 255}, tma \in {0, 128, 255},
        counter \in {0, 4, 12, 65532}}

InitChunk ==
    /\ \E t \in ChunkTimers : \E a \in ChunkAmounts, b \in ChunkAmounts :
         /\ a + b <= MaxChunk
         /\ cpu = [Cpu_new EXCEPT !.mmu.timer = t]
         /\ last = [kind |-> "chunk", a |-> a, b |-> b,
                    whole |-> Timer_update(t, a + b)]
    /\ steps = 0

ChunkFirst ==
    /\ steps = 0
    /\ cpu' = [cpu EXCEPT !.mmu.timer = Timer_update(@, last.a)]
    /\ steps' = 1
    /\ UNCHANGED last

ChunkSecond ==
    /\ steps = 1
    /\ cpu' = [cpu EXCEPT !.mmu.timer = Timer_update(@, last.b)]
    /\ steps' = 2
    /\ UNCHANGED last

NextChunk == ChunkFirst \/ ChunkSecond

SpecChunk == InitChunk /\ [][NextChunk]_vars

\* C35 (chunking independence): for every timer state and all a, b with
\* a + b <= 255, update(a) followed by update(b) leaves the same counter,
\* TIMA and irq_timer as the single call update(a + b), and no call
\* overflows a byte in the reload.
C35_TimerChunkIndependent ==
    (last.kind = "chunk" /\ steps = 2)
        => /\ cpu.mmu.timer.counter = last.whole.counter
           /\ cpu.mmu.timer.tima = last.whole.tima
           /\ cpu.mmu.timer.irq_timer = last.whole.irq_timer
           /\ ~cpu.mmu.timer.overflowed
           /\ ~last.whole.overflowed

SpriteCount == 40
SpriteLimit == 10

sprite_height(p) == IF BitAnd(p.lcdc, 4) > 0 THEN 16 ELSE 8

\* lines 384-385
sprite_y(p, i) == wrapping_sub8(MemGet(p.oam, i * 4), 16)
sprite_x(p, i) == wrapping_sub8(MemGet(p.oam, i * 4 + 1), 8)

\* the two `continue` tests, lines 394-400
sprite_skipped(p, i) ==
    \/ sprite_y(p, i) > p.ly
    \/ p.ly >= sprite_y(p, i) + sprite_height(p)
    \/ (160 <= sprite_x(p, i) /\ sprite_x(p, i) <= 248)

\* lines 423-427: the columns visited until the first one at 160 or beyond
sprite_pixels(sx) ==
    {wrapping_add8(sx, offset_x) : offset_x \in
        {o \in 0..7 : \A k \in 0..o : wrapping_add8(sx, k) < 160}}

RECURSIVE render_sprites_from(_, _, _, _)
render_sprites_from(p, i, sprites_num, drawn) ==
    IF i = SpriteCount THEN drawn
    ELSE IF sprite_skipped(p, i)
    THEN render_sprites_from(p, i + 1, sprites_num, drawn)
    ELSE IF sprites_num + 1 > SpriteLimit THEN drawn
    ELSE render_sprites_from(p, i + 1, sprites_num + 1, Append(drawn, i))

render_sprites(p) == render_sprites_from(p, 0, 0, <<>>)

\* OAM entry 0 at (Y, X), and after it `crowd` entries that cover the
\* line LY at columns 0..7 and onwards
SpriteYs == {0, 1, 9, 10, 15, 16, 17, 24, 32, 152, 159, 160, 255}
SpriteXs == {0, 1, 7, 8, 9, 160, 167, 168, 255}
SpriteLines == {0, 1, 7, 8, 15, 16, 143}
SpriteCrowds == {0, 9, 12}

OamCell(y, x, ly, a) ==
    CASE a = 0 -> y
      [] a = 1 -> x
      [] a > 1 /\ a % 4 = 0 -> ly + 16
      [] a > 1 /\ a % 4 = 1 -> 8 + (a \div 4)
      [] OTHER -> 0

OamOf(y, x, ly, crowd) ==
    [a \in {c \in 0..(4 * crowd + 3) : OamCell(y, x, ly, c) # 0}
        |-> OamCell(y, x, ly, a)]

NoScan == [kind |-> "init", drawn |-> <<>>, pixels |-> {}]

InitSprite ==
    /\ \E y \in SpriteYs, x \in SpriteXs, ly \in SpriteLines,
          crowd \in SpriteCrowds, lcdc \in {130, 134} :
         cpu = [Cpu_new EXCEPT !.mmu.ppu.oam = OamOf(y, x, ly, crowd),
                               !.mmu.ppu.ly = ly,
                               !.mmu.ppu.lcdc = lcdc,
                               !.mmu.ppu.stat = Drawing]
    /\ last = NoScan
    /\ steps = 0

\* render_scan's call of render_sprites on the line LY
RenderSprites ==
    /\ steps = 0
    /\ BitAnd(cpu.mmu.ppu.lcdc, 2) > 0
    /\ \E drawn \in {render_sprites(cpu.mmu.ppu)} :
         last' = [kind |-> "scan", drawn |-> drawn,
                  pixels |-> {<<drawn[k], c>> : k \in DOMAIN drawn,
                                c \in 0..159} \cap
                             UNION {{drawn[k]} \X sprite_pixels(
                                        sprite_x(cpu.mmu.ppu, drawn[k])) :
                                    k \in DOMAIN drawn}]
    /\ steps' = 1
    /\ UNCHANGED cpu

SpecSprite == InitSprite /\ [][RenderSprites]_vars

\* entry 0 had a frame cell written on this line
Entry0Drawn == \E c \in 0..159 : <<0, c>> \in last.pixels

\* what the rule says of entry 0: rows Y-16 .. Y-16+height-1 hold LY, in
\* signed arithmetic, and a column of X-8 .. X-1 is in 0..159
Entry0Visible ==
    LET y == MemGet(cpu.mmu.ppu.oam, 0)
        x == MemGet(cpu.mmu.ppu.oam, 1)
    IN  /\ y - 16 <= cpu.mmu.ppu.ly
        /\ cpu.mmu.ppu.ly < y - 16 + sprite_height(cpu.mmu.ppu)
        /\ \E c \in (x - 8)..(x - 1) : c \in 0..159

\* C37 (sprite visibility): an OAM entry (Y, X) is drawn on scanline LY
\* exactly when Y-16 <= LY < Y-16+height in signed arithmetic and one of
\* its columns X-8..X-1 is in [0,160), and at most 10 sprites are drawn on
\* a scanline.
C37_SpriteVisibility ==
    last.kind = "scan"
        => /\ Entry0Drawn <=> Entry0Visible
           /\ Len(last.drawn) <= SpriteLimit

(***************************************************************************)
(* INC and DEC: step() calls over the sixteen INC and DEC opcodes, from    *)
(* machines in which the operand holds each byte value.  In the "mem"      *)
(* machines A, B, C, D and E hold the byte and HL points at a work-RAM     *)
(* cell that holds it too; in the "regs" machines H and L hold it, and     *)
(* only their four opcodes are run.  `last` holds the opcode and the       *)
(* machine before the call.                                                *)
(***************************************************************************)
MaxIncDecSteps == 2

IncDecOpcodes == IncR8Opcodes \cup DecR8Opcodes \cup {OpIncHL, OpDecHL}

\* carry alone, and Z, N and H without carry
IncDecFlags == {16, 224}

IncDecMachine(family, v, fl) ==
    set_flags_from_byte(
        IF family = "mem"
        THEN [Cpu_new EXCEPT !.a = v, !.b = v, !.c = v, !.d = v, !.e = v,
                             !.h = 192, !.l = 0,
                             !.mmu = Mmu_write_byte(@, 49152, v)]
        ELSE [Cpu_new EXCEPT !.h = v, !.l = v],
        fl)

InitIncDec ==
    /\ \E family \in {"mem", "regs"}, v \in 0..255, fl \in IncDecFlags :
         /\ cpu = IncDecMachine(family, v, fl)
         /\ last = [kind |-> "init", opcode |-> 0, pre |-> Cpu_new,
                    family |-> family]
    /\ steps = 0

IncDecStep ==
    /\ Running
    /\ steps < MaxIncDecSteps
    /\ \E opcode \in IncDecOpcodes :
         /\ (last.family = "regs") <=> (R8Names[(opcode \div 8) + 1] \in {"H", "L"})
         /\ \E s \in {step(cpu, opcode, 0, 0)} :
              /\ cpu' = s.cpu
              /\ last' = [kind |-> "incdec", opcode |-> opcode, pre |-> cpu,
                          family |-> last.family]
    /\ steps' = steps + 1

SpecIncDec == InitIncDec /\ [][IncDecStep]_vars

\* the operand of the latest INC or DEC, before and after
IncDecOld == read_r8(last.pre, R8Names[(last.opcode \div 8) + 1])
IncDecNew == read_r8(cpu, R8Names[(last.opcode \div 8) + 1])

MaxDaaSteps == 2
OpAddAB == 128
OpSubB == 144

\* the packed-BCD byte of n in 0..99
Bcd(n) == (n \div 10) * 16 + (n % 10)

DaaFlags == {0, 240}

NoDaa == [kind |-> "init", opcode |-> 0, first |-> 0, x |-> 0, y |-> 0]

InitDaa ==
    /\ \E x \in 0..99, y \in 0..99, fl \in DaaFlags :
         /\ cpu = set_flags_from_byte([Cpu_new EXCEPT !.a = Bcd(x), !.b = Bcd(y)], fl)
         /\ last = [NoDaa EXCEPT !.x = x, !.y = y]
    /\ steps = 0

\* the program ADD A,B ; DAA or SUB B ; DAA, one step() call each
DaaStep ==
    /\ Running
    /\ steps < MaxDaaSteps
    /\ \E opcode \in (IF last.kind = "init" THEN {OpAddAB, OpSubB} ELSE {OpDaa}) :
         \E s \in {step(cpu, opcode, 0, 0)} :
            /\ cpu' = s.cpu
            /\ last' = [last EXCEPT !.kind = "daa", !.opcode = opcode,
                                    !.first = IF last.kind = "init"
                                              THEN opcode ELSE @]
    /\ steps' = steps + 1

SpecDaa == InitDaa /\ [][DaaStep]_vars

\* the DAA that follows the ADD or the SUB has run
Adjusted == last.kind = "daa" /\ last.opcode = OpDaa /\ steps = 2

IsMBC3 == cpu.mmu.cartridge.kind = "MBC3"

\* the bank the latest byte written to 0x2000-0x3FFF selects on an MBC3:
\* its low seven bits, 1 in place of 0 (and 1 before any write)
Mbc3Selected ==
    IF BitAnd(last.low, 127) = 0 THEN 1 ELSE BitAnd(last.low, 127)

\* C40 (MBC3 never maps bank 0 into the switchable window): from the
\* creation of the cartridge on and after any writes to 0x2000-0x3FFF, the
\* bank read at 0x4000-0x7FFF is the last value written & 0x7F with 0
\* replaced by 1, hence 1 or more.
C40_Mbc3BankNeverZero ==
    IsMBC3
        => /\ cpu.mmu.cartridge.rom_bank_no = Mbc3Selected
           /\ cpu.mmu.cartridge.rom_bank_no >= 1
           /\ Mbc3Selected < NumBanks => ReadsBank(Mbc3Selected)

====
